---- MODULE Spec2Model ----
(***************************************************************************)
(* A model of the rlpbr Vulkan backend: the Shared Scene State (SceneID    *)
(* free-list, address table, lock), the parameter-buffer layout, the       *)
(* per-batch descriptor sets, the control flow of VulkanBackend::render,   *)
(* the batch fence, probe baking with its on-disk probe file, and the     *)
(* move-only handles of the public interface.                              *)
(***************************************************************************)
EXTENDS Integers, Sequences, FiniteSets, TLC

VARIABLES
    \* ---- Shared Scene State (src/src/vulkan/scene.hpp:126-139) ----
    lock,           \* std::mutex lock: LockFree or the thread holding it
    freeSceneIDs,   \* std::vector<uint32_t> freeSceneIDs
    numSceneIDs,    \* uint32_t numSceneIDs
    addrData,       \* HostBuffer addrData: table slot -> Scene that wrote it (0: none)
    \* ---- loaders running loadScene ----
    lpc,            \* position of each loader inside loadScene
    tracker,        \* the SceneID object loadScene holds (scene_id_tracker)
    lslot,          \* the Scene object the loader is constructing (0: none)
    \* ---- Scene objects (shared_ptr<Scene>) ----
    sceneID,        \* VulkanScene::sceneID (std::optional<SceneID>)
    refs,           \* shared_ptr use count: callers and Environments
    crashed,        \* the process ended on an out-of-bounds access
    \* ---- backend and batch state used by VulkanBackend::render ----
    cfg_,           \* VulkanBackend::Config (batchSize and the feature flags)
    curBuffer,      \* VulkanBatch::curBuffer
    cur_queue_,     \* VulkanBackend::cur_queue_
    frame_counter_, \* VulkanBackend::frame_counter_ (uint32_t, far from wrapping here)
    rtSets,         \* PerBatchState::rtSets: set -> binding -> reservoir
    dirty,          \* Environment dirty flag of each batch slot
    rpc,            \* position of the rendering thread inside render
    retpc,          \* where the running startRenderSetup returns to
    adaptive_iter,  \* loop variable of the convergence loop
    num_tiles,      \* work items emitted for the next dispatch
    tileUnconverged,\* readback: some tile fails the convergence criterion
    boundSet,       \* rt set bound in the command stream last begun
    \* ---- parameter-buffer layout ----
    limits,         \* the build's capacities and element sizes, the device's alignment
    param_cfg_,     \* VulkanBackend::param_cfg_ (ParamBufferConfig)
    \* ---- history (for the statements only) ----
    reused,         \* ids handed out a second time after having been freed
    calls,          \* render calls that have returned
    callStart,      \* curBuffer, cur_queue_ and dirty flags at call entry
    callSets,       \* rt sets bound by the command streams of this call
    streams,        \* command streams begun by this call
    tlasBuilds,     \* TLAS builds recorded by this call, per batch slot
    tlasRan,        \* the TLAS loop of this call has run
    loopTrips,      \* convergence-loop iterations begun by this call
    prevCur,        \* reservoir the last returned call bound as current
    callsLeft,      \* render calls the behaviour may still begin
    \* ---- the batch fence (PerBatchState::fence) ----
    fence,          \* device state of the fence, with counts of its uses
    fenceAtCall,    \* history: the fence as the running render call found it
    loopWork,       \* history: dispatches and submissions made inside the
                    \* convergence loop by this call
    emptySeen,      \* history: loopWork when a pass emitted no work item
    gpuUnderLock,   \* history: a submission or fence wait was made by a
                    \* thread holding the Shared Scene State lock
    awaiting,       \* a render call returned and waitForBatch has not run since
    \* ---- probe baking (VulkanBackend::bake, bakeProbe) ----
    probeFile,      \* probes.bin on disk: 4-byte words, or absent
    obuf,           \* words written to bake's ofstream and not yet flushed
    probes_,        \* VulkanBackend::probes_: the image of each Probe
    probe_dset_,    \* images bound by makeProbeDescriptorSet
    probe_count,    \* bake's local probe_count
    positions,      \* bake's local positions, as grid indices
    start,          \* bake's local start
    bakeI,          \* bake's loop variable i
    bpc,            \* position of the calling thread inside bake / bakeProbe
    bpret,          \* where bakeProbe's running startRenderSetup returns to
    chunk,          \* bakeProbe's sample-chunk loop variable, in chunks
    probeFence,     \* fence of probe_gen_'s batch state
    bakesLeft,      \* bake calls the behaviour may still begin
    restartsLeft,   \* process restarts the behaviour may still make
    \* ---- history of bake (for the statements only) ----
    bakeCalls,      \* bake calls that have returned in this process
    entryFile,      \* the probe file as the running / last bake call found it
    loaded,         \* images the load loop of this call produced
    rendered,       \* grid positions this call has rendered, in order
    appended,       \* records this call appended: grid index baked, image written
    fileLog,        \* what reached the file, in order: headers and records
    probeDim,       \* PROBE_DIM: the probes along x, y and z
    bakeLog,        \* history: what the running / last bakeProbe recorded and did
    \* ---- handles (src/include/rlpbr/backend.hpp) ----
    hkind,          \* the handle class the live handles belong to
    handles,        \* the handle objects, by storage slot
    instances,      \* the backend-owned instances the handles point to
    lastMove,       \* history: the move just made, with the source before it
    \* ---- queues (VulkanBackend::transfer_queues_, compute_queues_) ----
    qcfg,           \* cfg.numLoaders and the device's queue counts
    transfer_queues_,   \* the shared flag of each transfer QueueState
    compute_queues_,    \* the shared flag of each compute QueueState
    num_loaders_,   \* VulkanBackend::num_loaders_
    loaderQueues,   \* the queue indices each VulkanLoader was constructed with
    \* ---- framebuffer layout (VulkanBackend::fb_cfg_, makeFramebuffer) ----
    rcfg_,          \* the RenderConfig the backend is constructed from
    fb_cfg_,        \* the FramebufferConfig, once computed
    exportedBytes,  \* size of the exported output buffer of the batch
    \* ---- the command stream of render (render_cmd and the host around it) ----
    tiling,         \* tiles per image, samples per pixel, workgroup constants
    cmds,           \* history: what the running / last call recorded and did
    tileInput,      \* batch_state.tileInputPtr[0 .. cur_tile_idx) of the first pass
    pastRtFrames,   \* history: frames pushed for the traces of earlier calls
    \* ---- the packing loop (Environment, VulkanEnvironment, envPtr) ----
    envs,           \* the batch's environments: cameras and element counts
    envPtr,         \* batch_state.envPtr: the PackedEnv of each batch slot
    ranges,         \* what the last packing loop wrote to the linear regions
    prevEnvPtr,     \* history: envPtr as the render call before the last left it
    \* ---- backend construction (makeRenderState) and environment maps ----
    scfg,           \* the RenderConfig fields makeRenderState reads
    render_state_,  \* what makeRenderState built: the sampling define
    cur_env_maps_,  \* the active environment map group, or nullptr
    numEnvironments,    \* environments makeEnvironment has made
    unsetGroupUsed      \* history: cur_env_maps_ was used while it was nullptr

sceneVars == <<lock, freeSceneIDs, numSceneIDs, addrData, lpc, tracker, lslot,
               sceneID, refs, crashed, reused>>

renderVars == <<cfg_, curBuffer, cur_queue_, frame_counter_, rtSets, dirty, rpc,
                retpc, adaptive_iter, num_tiles, tileUnconverged, boundSet,
                calls, callStart, callSets, streams, tlasBuilds, tlasRan,
                loopTrips, prevCur, callsLeft, tiling, cmds, tileInput,
                pastRtFrames, envs, envPtr, ranges, prevEnvPtr>>

packVars == <<envs, envPtr, ranges, prevEnvPtr>>

streamVars == <<tiling, cmds, tileInput, pastRtFrames>>

paramVars == <<limits, param_cfg_>>

fenceVars == <<fence, fenceAtCall, loopWork, emptySeen, gpuUnderLock, awaiting>>

bakeVars == <<probeFile, obuf, probes_, probe_dset_, probe_count, positions,
              start, bakeI, bpc, bpret, chunk, probeFence, bakesLeft,
              restartsLeft, bakeCalls, entryFile, loaded, rendered, appended,
              fileLog, bakeLog, probeDim>>

handleVars == <<hkind, handles, instances, lastMove>>

queueVars == <<qcfg, transfer_queues_, compute_queues_, num_loaders_,
               loaderQueues>>

fbVars == <<rcfg_, fb_cfg_, exportedBytes>>

apiVars == <<scfg, render_state_, cur_env_maps_, numEnvironments, unsetGroupUsed>>

objVars == <<handleVars, queueVars, fbVars, apiVars>>

vars == <<sceneVars, renderVars, paramVars, fenceVars, bakeVars, objVars>>

\* ------------------------------------------------------------------ bounds
\* VulkanConfig::max_scenes at model scale (the table has this many slots)
max_scenes == 2
\* Scene objects that can be alive at once
MaxLiveScenes == 3
\* references to one Scene (the caller's shared_ptr plus Environments)
MaxRefs == 2
\* configured loader count
NumLoaders == 2
\* largest configured batch size
MaxBatch == 2
\* render calls followed in one behaviour
MaxRenderCalls == 3
\* largest VulkanConfig::max_instances and max_lights tried
MaxInstances == 3
MaxLights == 2

Loaders == 1..NumLoaders
SceneSlots == 1..MaxLiveScenes
\* lock holders
LockFree == <<"free", 0>>
LoaderThread(l) == <<"loader", l>>
RenderThread == <<"render", 0>>
NoTracker == [shared |-> FALSE, id |-> -1]

\* ------------------------------------------------------------ SceneID class
\* SceneID::SceneID(SharedSceneState &): take the back of the free-list, or
\* grow the id range when the list is empty.
\* (variant: the id stays in the free-list)
SceneIDCtor_NoPop(free, num) ==
    IF Len(free) > 0
    THEN [obj |-> [shared |-> TRUE, id |-> free[Len(free)]],
          free |-> free, num |-> num]
    ELSE [obj |-> [shared |-> TRUE, id |-> num], free |-> free, num |-> num + 1]

SceneIDCtor(free, num) ==
    IF Len(free) > 0
    THEN [obj |-> [shared |-> TRUE, id |-> free[Len(free)]],
          free |-> SubSeq(free, 1, Len(free) - 1), num |-> num]
    ELSE [obj |-> [shared |-> TRUE, id |-> num], free |-> free, num |-> num + 1]

\* SceneID::SceneID(SceneID &&o): the source loses its shared_ pointer.
SceneIDMove(o) ==
    [new |-> [shared |-> o.shared, id |-> o.id],
     old |-> [shared |-> FALSE, id |-> o.id]]

\* SceneID::~SceneID(): a moved-from object returns nothing.
\* (variant: shared_ is not looked at)
SceneIDDtor_NoNullCheck(o, free) == Append(free, o.id)

SceneIDDtor(o, free) == IF ~o.shared THEN free ELSE Append(free, o.id)

\* ------------------------------------------------------------ render: data
BatchSlots == 0..(MaxBatch - 1)
\* descriptor bindings of the two reservoir buffers in an rt set
CurReservoirBinding == 11
PrevReservoirBinding == 12
ReservoirBindings == {CurReservoirBinding, PrevReservoirBinding}
\* iteration cap of the convergence loop
max_adaptive_iters == 10000

\* VulkanBackend::Config as built by the constructor from RenderConfig
Configs ==
    [batchSize : 1..MaxBatch, auxiliaryOutputs : BOOLEAN, tonemap : BOOLEAN,
     adaptiveSampling : BOOLEAN, denoise : BOOLEAN,
     mode : {"PathTracer", "Biased"}]

\* makeFramebuffer: index of every output buffer, -1 when not allocated
makeFramebuffer(cfg) ==
    LET base == IF cfg.auxiliaryOutputs THEN 4 ELSE 2
        afterIllum == IF cfg.tonemap THEN base + 1 ELSE base
    IN  [outputIdx |-> 0,
         hdrIdx |-> 1,
         normalIdx |-> IF cfg.auxiliaryOutputs THEN 2 ELSE -1,
         albedoIdx |-> IF cfg.auxiliaryOutputs THEN 3 ELSE -1,
         illuminanceIdx |-> IF cfg.tonemap THEN base ELSE -1,
         adaptiveIdx |-> IF cfg.adaptiveSampling THEN afterIllum ELSE -1,
         numOutputs |-> IF cfg.adaptiveSampling THEN afterIllum + 1
                        ELSE afterIllum]

\* fb.outputs[idx] names an allocated buffer
ValidOutput(cfg, idx) == idx >= 0 /\ idx < makeFramebuffer(cfg).numOutputs

\* makePerBatchState: reservoirs[0] is binding 11 of set 0 and binding 12 of
\* set 1, reservoirs[1] is binding 12 of set 0 and binding 11 of set 1
\* (variant: both sets get the bindings of set 0)
makePerBatchState_SameInBoth ==
    [i \in {0, 1} |->
        [b \in ReservoirBindings |-> IF b = CurReservoirBinding THEN 0 ELSE 1]]

makePerBatchState ==
    [i \in {0, 1} |->
        [b \in ReservoirBindings |->
            IF (i = 0 /\ b = CurReservoirBinding) \/
               (i = 1 /\ b = PrevReservoirBinding)
            THEN 0 ELSE 1]]

\* curBuffer = (curBuffer + 1) & 1
\* (variant: the index is written back unchanged)
NextBuffer_Stuck(b) == b

NextBuffer(b) == (b + 1) % 2

\* cur_queue_ = (cur_queue_ + 1) & 1
NextQueue(q) == (q + 1) % 2

\* the TLAS loop body for one environment: build iff dirty, then clearDirty
\* (variant: the build is recorded without looking at the flag)
TlasBuildCount_Always(d) == 1

TlasBuildCount(d) == IF d THEN 1 ELSE 0

TlasDirtyAfter(d) == IF d THEN FALSE ELSE d

\* processAdaptiveTile over all tiles: work items written for the next
\* dispatch; the lambda returns before its re-emission code
processAdaptiveTile(unconverged) == 0

\* how the convergence loop goes on at its head: it is left by the for
\* condition ("cap"), left by the break on an empty work list ("empty"), or
\* records another pass ("none")
\* (variant: neither the for condition nor the break ends the loop)
AdaptiveLoopExit_Never(iter, emitted) == "none"

\* (variant: an empty work list does not end the loop)
AdaptiveLoopExit_IgnoresEmpty(iter, emitted) ==
    IF ~(iter < max_adaptive_iters) THEN "cap" ELSE "none"

AdaptiveLoopExit(iter, emitted) ==
    IF ~(iter < max_adaptive_iters) THEN "cap"
    ELSE IF emitted = 0 THEN "empty"
    ELSE "none"

\* where render goes after the trace stage
\* (variant: the denoise branch is taken whatever the configuration)
AfterTrace_AlwaysDenoise(cfg) == "denoise"

\* (variant: the call is held after the trace stage)
AfterTrace_Held(cfg) == "held"

AfterTrace(cfg) ==
    IF cfg.denoise /\ cfg.mode = "PathTracer" THEN "denoise" ELSE "finish"

\* ---- the batch fence ----
\* a fence is unsignaled or signaled and has the submissions queued with it
\* that the device has not finished; waited, fault, submits and waits are
\* history: a wait returned since the last reset, a submission was made
\* with the fence signaled, waited on or still pending, and the number of
\* submissions and of waits so far
NewFence == [signaled |-> FALSE, pending |-> 0, waited |-> FALSE,
             fault |-> FALSE, submits |-> 0, waits |-> 0]

\* submitCmd: end the command buffer and submit it with the batch fence
submitCmd(f) ==
    [f EXCEPT !.pending = @ + 1,
              !.submits = @ + 1,
              !.fault = @ \/ f.signaled \/ f.waited \/ f.pending > 0]

\* the device finishes what was submitted with the fence and signals it
GpuComplete(f) == [f EXCEPT !.pending = 0, !.signaled = TRUE]

\* waitForFenceInfinitely returns once the fence is signaled
waitForFenceInfinitely(f) == [f EXCEPT !.waited = TRUE, !.waits = @ + 1]

\* resetFence
\* (variant: the fence is left as the wait found it)
resetFence_Skipped(f) == f

resetFence(f) == [f EXCEPT !.signaled = FALSE, !.waited = FALSE]

\* submitCmd(); waitForFenceInfinitely(fence); resetFence(fence): the calling
\* thread is blocked until the device has finished the submission
\* (variant: the thread goes on as soon as it has submitted)
SubmitWaitReset_NoWait(f) == submitCmd(f)

SubmitWaitReset(f) ==
    resetFence(waitForFenceInfinitely(GpuComplete(submitCmd(f))))

\* Denoiser::denoise is handed the command buffer, the fence and the queue:
\* it submits its own work with the fence, waits for it and resets it
denoise(f) == SubmitWaitReset(f)

ZeroWork == [dispatches |-> 0, submits |-> 0]
NoEmptyPass == [seen |-> FALSE, work |-> ZeroWork]

\* ---- the command stream of render ----
\* one entry of what render records into render_cmd or does on the host, in
\* program order; arg holds the integers of the call
Cmd(op, arg) == [op |-> op, arg |-> arg]

\* srcAccessMask and dstAccessMask of the barriers render records
BarrierAccess(op) ==
    CASE op = "tlas_barrier" ->
            [src |-> {"ACCELERATION_STRUCTURE_WRITE"}, dst |-> {"SHADER_READ"}]
      [] op = "param_barrier" ->
            [src |-> {"TRANSFER_WRITE"}, dst |-> {"SHADER_READ"}]
      [] op = "zero_barrier" ->
            [src |-> {"TRANSFER_WRITE"},
             dst |-> {"SHADER_READ", "SHADER_WRITE"}]
      [] op = "comp_barrier" ->
            [src |-> {"SHADER_WRITE"},
             dst |-> {"SHADER_READ", "SHADER_WRITE"}]
      [] op = "readback_barrier" ->
            [src |-> {"SHADER_WRITE"}, dst |-> {"TRANSFER_READ"}]
      [] OTHER -> [src |-> {}, dst |-> {}]

divideRoundUp(a, b) == (a + b - 1) \div b

\* the tiling of one image (fb_cfg_.numTilesWide and numTilesTall, which are
\* launch_size_.x and .y), cfg_.spp and the two VulkanConfig constants the
\* work list and the launch size depend on
UnitTiling ==
    [numTilesWide |-> 1, numTilesTall |-> 1, localWorkgroupZ |-> 1,
     spp |-> 1, adaptive_samples_per_thread |-> 1]

\* getLaunchSize
getLaunchSize(cfg, t) ==
    <<t.numTilesWide, t.numTilesTall,
      divideRoundUp(cfg.batchSize, t.localWorkgroupZ)>>

\* frame_counter_ += cfg_.batchSize
\* (variant: the counter is left where it was)
AdvanceFrame_Stuck(frame, batch) == frame

AdvanceFrame(frame, batch) == frame + batch

\* startRenderSetup: reset the pool, begin render_cmd, bind the pipeline and
\* push the constants, frame_counter_ among them
\* (variant: the constants are pushed with the counter of a new backend)
SetupCommands_FrameZero(frame) == <<Cmd("begin", <<0>>)>>

SetupCommands(frame) == <<Cmd("begin", <<frame>>)>>

\* the TLAS loop over the batch, then tlas_barrier
\* (variant: the barrier is recorded ahead of the builds)
TlasCommands_BarrierFirst(cfg, d) ==
    <<Cmd("tlas_barrier", <<>>)>> \o
    SelectSeq([i \in 1..cfg.batchSize |-> Cmd("tlas_build", <<i - 1>>)],
              LAMBDA c : TlasBuildCount(d[c.arg[1]]) > 0)

TlasCommands(cfg, d) ==
    SelectSeq([i \in 1..cfg.batchSize |-> Cmd("tlas_build", <<i - 1>>)],
              LAMBDA c : TlasBuildCount(d[c.arg[1]]) > 0) \o
    <<Cmd("tlas_barrier", <<>>)>>

\* cmdCopyBuffer from renderInputStaging to renderInputDev
PackCommands == <<Cmd("param_copy", <<>>)>>

\* the non-adaptive branch: param_barrier, then the dispatch over launch_size_
PlainCommands(launch) ==
    <<Cmd("param_barrier", <<>>), Cmd("rt_dispatch", launch)>>

\* the four nested loops that fill tileInputPtr through writeTile
RECURSIVE SampleLoop(_, _, _, _, _)
SampleLoop(batch_idx, tile_y, tile_x, sample_idx, t) ==
    IF sample_idx < t.spp
    THEN <<[batchIdx |-> batch_idx, xOffset |-> tile_x, yOffset |-> tile_y,
            sampleOffset |-> sample_idx]>> \o
         SampleLoop(batch_idx, tile_y, tile_x,
                    sample_idx + t.adaptive_samples_per_thread, t)
    ELSE <<>>

RECURSIVE TileXLoop(_, _, _, _)
TileXLoop(batch_idx, tile_y, tile_x, t) ==
    IF tile_x < t.numTilesWide
    THEN SampleLoop(batch_idx, tile_y, tile_x, 0, t) \o
         TileXLoop(batch_idx, tile_y, tile_x + 1, t)
    ELSE <<>>

RECURSIVE TileYLoop(_, _, _)
TileYLoop(batch_idx, tile_y, t) ==
    IF tile_y < t.numTilesTall
    THEN TileXLoop(batch_idx, tile_y, 0, t) \o
         TileYLoop(batch_idx, tile_y + 1, t)
    ELSE <<>>

RECURSIVE BatchLoop(_, _, _)
BatchLoop(batch_idx, cfg, t) ==
    IF batch_idx < cfg.batchSize
    THEN TileYLoop(batch_idx, 0, t) \o BatchLoop(batch_idx + 1, cfg, t)
    ELSE <<>>

\* (variant: one work item per (environment, tile), whatever spp is)
FirstPassTiles_OnePerTile(cfg, t) ==
    BatchLoop(0, cfg, [t EXCEPT !.spp = 1])

FirstPassTiles(cfg, t) == BatchLoop(0, cfg, t)

\* adaptiveReadback: readback_barrier and the two copies to host memory
adaptiveReadback ==
    <<Cmd("readback_barrier", <<>>), Cmd("readback_copy", <<>>)>>

\* the adaptive branch up to its first submit: the fills of the outputs,
\* zero_barrier, the host writing the work list, the dispatch of one
\* thread-group per work item, the readback
FirstPassCommands(cfg, tiles) ==
    <<Cmd("fill", <<makeFramebuffer(cfg).adaptiveIdx>>),
      Cmd("fill", <<makeFramebuffer(cfg).hdrIdx>>)>> \o
    (IF cfg.tonemap
     THEN <<Cmd("fill", <<makeFramebuffer(cfg).illuminanceIdx>>)>>
     ELSE <<>>) \o
    (IF cfg.auxiliaryOutputs
     THEN <<Cmd("fill", <<makeFramebuffer(cfg).normalIdx>>),
            Cmd("fill", <<makeFramebuffer(cfg).albedoIdx>>)>>
     ELSE <<>>) \o
    <<Cmd("zero_barrier", <<>>), Cmd("write_tiles", <<tiles>>),
      Cmd("rt_dispatch", <<tiles, 1, 1>>)>> \o
    adaptiveReadback

\* submitCmd(); waitForFenceInfinitely(fence); resetFence(fence) on the host
SubmitWaitResetOps ==
    <<Cmd("submit", <<>>), Cmd("wait", <<>>), Cmd("reset", <<>>)>>

\* the head of a convergence-loop iteration: the host reads the statistics
\* and the illuminance of every tile of the batch and decides on it
LoopHeadOps(cfg, t, iter) ==
    IF iter < max_adaptive_iters
    THEN <<Cmd("process_tiles",
               <<cfg.batchSize * t.numTilesTall * t.numTilesWide>>)>>
    ELSE <<>>

\* a further pass of the loop: comp_barrier, the dispatch, the readback
LoopPassCommands(tiles) ==
    <<Cmd("comp_barrier", <<>>), Cmd("rt_dispatch", <<tiles, 1, 1>>)>> \o
    adaptiveReadback

\* VulkanBackend::denoiser_ holds a Denoiser
denoiser_(cfg) == cfg.denoise \/ cfg.mode = "Biased"

\* denoiser_->denoise
DenoiseOps == <<Cmd("denoise", <<>>)>>

\* the exposure and tonemap passes when tonemap is on, then the last submitCmd
FinishCommands(cfg, launch) ==
    (IF cfg.tonemap
     THEN <<Cmd("comp_barrier", <<>>),
            Cmd("exposure_dispatch", <<1, 1, cfg.batchSize>>),
            Cmd("comp_barrier", <<>>),
            Cmd("tonemap_dispatch", launch)>>
     ELSE <<>>) \o
    <<Cmd("submit", <<>>)>>

\* positions of the ray-tracing dispatches in a log, the begin that opened the
\* command buffer position i lies in, and the frame counter pushed there
RtDispatches(log) == {i \in 1..Len(log) : log[i].op = "rt_dispatch"}

BeginBefore(log, i) ==
    CHOOSE j \in 1..i :
        /\ log[j].op = "begin"
        /\ \A k \in (j + 1)..i : log[k].op # "begin"

PushedFrame(log, i) == log[BeginBefore(log, i)].arg[1]

\* the frame counters the ray-tracing dispatches of a log were pushed
RtFrames(log) == {PushedFrame(log, i) : i \in RtDispatches(log)}


\* ---- the packing loop ----
\* a Camera as the caller sets it; packCamera keeps the orientation, the
\* position and tanFOV and leaves aspectRatio out
MaxCamPosition == 1
Cameras ==
    [position : 0..MaxCamPosition, orientation : {0}, tanFOV : {1},
     aspectRatio : {0, 1}]

packCamera(cam) ==
    [rotation |-> cam.orientation,
     posAndTanFOV |-> <<cam.position, cam.tanFOV>>]

DefaultCamera ==
    [position |-> 0, orientation |-> 0, tanFOV |-> 1, aspectRatio |-> 0]

\* an environment of the batch: its camera, VulkanEnvironment::prevCam, and
\* the sizes of its transforms, instance materials and lights
DefaultEnv ==
    [cam |-> DefaultCamera, prevCam |-> DefaultCamera, instances |-> 0,
     materials |-> 0, lights |-> 0]

\* the environments a batch is made of: instances and instance materials
\* as the scene gave them, no light yet, the camera of makeEnvironment
MaxEnvElems == 1
MaxEnvLights == 1
Batches ==
    [BatchSlots -> [cam : {DefaultCamera}, prevCam : {DefaultCamera},
                    instances : 0..MaxEnvElems, materials : 0..MaxEnvElems,
                    lights : {0}]]

\* a slot of envPtr nothing has been packed into, and no write to the regions
NoPackedEnv == [packed |-> FALSE]
NoRanges == [written |-> FALSE]

\* render packs the camera of the environment; bakeProbe packs it with the
\* view, up and right vectors pinned and the position of the probe
PinnedOrientation == 2
RenderCam == [override |-> FALSE, pos |-> 0]
BakeCam(pos) == [override |-> TRUE, pos |-> pos]
PackedCam(env, intent) ==
    IF intent.override
    THEN [packCamera([env.cam EXCEPT !.orientation = PinnedOrientation])
             EXCEPT !.posAndTanFOV = <<intent.pos, env.cam.tanFOV>>]
    ELSE packCamera(env.cam)

\* packed_env.prevCam = packCamera(env_backend.prevCam), ahead of the
\* assignment to env_backend.prevCam
\* (variant: the camera is saved as previous before the previous one is packed)
PackedPrevCam_AfterSave(env) == packCamera(env.cam)

PackedPrevCam(env) == packCamera(env.prevCam)

\* a running offset when the loop reaches slot i: it starts at 0 and is
\* advanced by the count of every slot packed before
RECURSIVE RunningOffset(_, _)
RunningOffset(counts, i) ==
    IF i = 0 THEN 0 ELSE RunningOffset(counts, i - 1) + counts[i - 1]

inst_offset(es, i) == RunningOffset([b \in BatchSlots |-> es[b].instances], i)
material_offset(es, i) ==
    RunningOffset([b \in BatchSlots |-> es[b].materials], i)
\* (variant: the lights are placed by the material offset)
light_offset_AsMaterials(es, i) ==
    RunningOffset([b \in BatchSlots |-> es[b].materials], i)

light_offset(es, i) == RunningOffset([b \in BatchSlots |-> es[b].lights], i)

\* the PackedEnv written for slot b: cameras, data.y, data.z, data.w
PackEnv(es, b, intent) ==
    [packed |-> TRUE,
     cam |-> PackedCam(es[b], intent),
     prevCam |-> PackedPrevCam(es[b]),
     data_y |-> material_offset(es, b),
     data_z |-> light_offset(es, b),
     data_w |-> es[b].lights]

\* envPtr after the loop over the batch
PackBatch(cfg, es, old, intent) ==
    [b \in BatchSlots |->
        IF b < cfg.batchSize THEN PackEnv(es, b, intent) ELSE old[b]]

\* env_backend.prevCam = env.getCamera() for every environment of the batch
SavePrevCams(cfg, es) ==
    [b \in BatchSlots |->
        IF b < cfg.batchSize THEN [es[b] EXCEPT !.prevCam = es[b].cam]
        ELSE es[b]]

\* the elements the three memcpy calls of each slot write: first index and
\* count in transformPtr, materialPtr and lightPtr
WrittenRanges(cfg, es) ==
    [b \in BatchSlots |->
        IF b < cfg.batchSize
        THEN [written |-> TRUE,
              transforms |-> <<inst_offset(es, b), es[b].instances>>,
              materials |-> <<material_offset(es, b), es[b].materials>>,
              lights |-> <<light_offset(es, b), es[b].lights>>]
        ELSE NoRanges]

\* the staging buffer is totalParamBytes long: a memcpy that runs past its end
\* writes outside the mapping, and its outcome is not determined
PackOutcomes(cfg, es, lim, pcfg) ==
    IF \/ lim.sizeofInstanceTransform * inst_offset(es, cfg.batchSize) >
            pcfg.totalParamBytes
       \/ pcfg.materialIndicesOffset + 4 * material_offset(es, cfg.batchSize) >
            pcfg.totalParamBytes
       \/ pcfg.lightsOffset + lim.sizeofPackedLight *
            light_offset(es, cfg.batchSize) > pcfg.totalParamBytes
    THEN BOOLEAN ELSE {FALSE}

NoCall == [curBuffer |-> 0, cur_queue_ |-> 0,
           dirty |-> [b \in BatchSlots |-> FALSE]]

\* state after VulkanBackend's constructor and makeRenderBatch
InitRenderPacked(cfgs, budget, tilings, batches) ==
    /\ cfg_ \in cfgs
    /\ envs \in batches
    /\ \A b \in BatchSlots : ~(b < cfg_.batchSize) => envs[b] = DefaultEnv
    /\ envPtr = [b \in BatchSlots |-> NoPackedEnv]
    /\ prevEnvPtr = [b \in BatchSlots |-> NoPackedEnv]
    /\ ranges = [b \in BatchSlots |-> NoRanges]
    /\ tiling \in tilings
    /\ cmds = <<>>
    /\ tileInput = <<>>
    /\ pastRtFrames = {}
    /\ curBuffer = 0
    /\ cur_queue_ = 0
    /\ frame_counter_ = 0
    /\ rtSets = makePerBatchState
    /\ dirty = [b \in BatchSlots |-> TRUE]
    /\ rpc = "idle"
    /\ retpc = "idle"
    /\ adaptive_iter = 0
    /\ num_tiles = 0
    /\ tileUnconverged = FALSE
    /\ boundSet = 0
    /\ calls = 0
    /\ callsLeft = budget
    /\ callStart = NoCall
    /\ callSets = {}
    /\ streams = 0
    /\ tlasBuilds = [b \in BatchSlots |-> 0]
    /\ tlasRan = FALSE
    /\ loopTrips = 0
    /\ prevCur = 0
    /\ fence = NewFence
    /\ fenceAtCall = NewFence
    /\ loopWork = ZeroWork
    /\ emptySeen = NoEmptyPass
    /\ gpuUnderLock = FALSE
    /\ awaiting = FALSE

\* tilings, sample counts and workgroup depths tried
MaxTiles == 2
MaxSpp == 3
MaxSamplesPerThread == 2
MaxWorkgroupZ == 2
Tilings ==
    [numTilesWide : 1..MaxTiles, numTilesTall : 1..MaxTiles,
     localWorkgroupZ : 1..MaxWorkgroupZ, spp : 1..MaxSpp,
     adaptive_samples_per_thread : 1..MaxSamplesPerThread]

\* the pipeline is not built for adaptive sampling with fewer samples per
\* pixel than one thread takes (fatalExit)
TilingAccepted(cfg, t) ==
    cfg.adaptiveSampling => ~(t.spp < t.adaptive_samples_per_thread)

\* the state after construction with a batch of empty environments
InitRenderTiled(cfgs, budget, tilings) ==
    InitRenderPacked(cfgs, budget, tilings, {[b \in BatchSlots |-> DefaultEnv]})

\* the state after construction with one tile per image and one sample chunk
InitRenderFor(cfgs, budget) == InitRenderTiled(cfgs, budget, {UnitTiling})

\* ------------------------------------------------- parameter-buffer layout
\* MemoryAllocator::alignStorageBufferOffset: round up to the device's
\* minimum storage-buffer offset alignment
alignStorageBufferOffset(alloc, offset) ==
    ((offset + alloc.alignment - 1) \div alloc.alignment) * alloc.alignment

\* the capacities of VulkanConfig, the sizes of the packed element types and
\* the device alignment a build can have
Limits ==
    [max_instances : 1..MaxInstances, max_lights : 1..MaxLights,
     sizeofInstanceTransform : {12, 48}, sizeofPackedLight : {16, 32},
     sizeofPackedEnv : {80, 144}, alignment : {1, 16, 64, 256}]

DefaultLimits ==
    [max_instances |-> 1, max_lights |-> 1, sizeofInstanceTransform |-> 48,
     sizeofPackedLight |-> 32, sizeofPackedEnv |-> 144, alignment |-> 64]

NoParamCfg ==
    [totalTransformBytes |-> -1, materialIndicesOffset |-> -1,
     totalMaterialIndexBytes |-> -1, lightsOffset |-> -1,
     totalLightParamBytes |-> -1, envOffset |-> -1,
     totalEnvParamBytes |-> -1, totalParamBytes |-> -1]

\* getParamBufferConfig(batch_size, alloc), lim standing for the constants of
\* the build (VulkanConfig and sizeof)
\* (variant: lightsOffset is the unaligned running offset)
getParamBufferConfig_UnalignedLights(batch_size, alloc, lim) ==
    LET totalTransformBytes == lim.sizeofInstanceTransform * lim.max_instances
        materialIndicesOffset ==
            alignStorageBufferOffset(alloc, totalTransformBytes)
        totalMaterialIndexBytes == 4 * lim.max_instances
        lightsOffset == materialIndicesOffset + totalMaterialIndexBytes
        totalLightParamBytes == lim.sizeofPackedLight * lim.max_lights
        envOffset ==
            alignStorageBufferOffset(alloc, lightsOffset + totalLightParamBytes)
        totalEnvParamBytes == lim.sizeofPackedEnv * batch_size
    IN  [totalTransformBytes |-> totalTransformBytes,
         materialIndicesOffset |-> materialIndicesOffset,
         totalMaterialIndexBytes |-> totalMaterialIndexBytes,
         lightsOffset |-> lightsOffset,
         totalLightParamBytes |-> totalLightParamBytes,
         envOffset |-> envOffset,
         totalEnvParamBytes |-> totalEnvParamBytes,
         totalParamBytes |->
            alignStorageBufferOffset(alloc, envOffset + totalEnvParamBytes)]

\* (variant: the total is the unaligned running offset)
getParamBufferConfig_UnalignedTotal(batch_size, alloc, lim) ==
    LET totalTransformBytes == lim.sizeofInstanceTransform * lim.max_instances
        materialIndicesOffset ==
            alignStorageBufferOffset(alloc, totalTransformBytes)
        totalMaterialIndexBytes == 4 * lim.max_instances
        lightsOffset ==
            alignStorageBufferOffset(alloc, materialIndicesOffset +
                                            totalMaterialIndexBytes)
        totalLightParamBytes == lim.sizeofPackedLight * lim.max_lights
        envOffset ==
            alignStorageBufferOffset(alloc, lightsOffset + totalLightParamBytes)
        totalEnvParamBytes == lim.sizeofPackedEnv * batch_size
    IN  [totalTransformBytes |-> totalTransformBytes,
         materialIndicesOffset |-> materialIndicesOffset,
         totalMaterialIndexBytes |-> totalMaterialIndexBytes,
         lightsOffset |-> lightsOffset,
         totalLightParamBytes |-> totalLightParamBytes,
         envOffset |-> envOffset,
         totalEnvParamBytes |-> totalEnvParamBytes,
         totalParamBytes |-> envOffset + totalEnvParamBytes]

getParamBufferConfig(batch_size, alloc, lim) ==
    LET totalTransformBytes == lim.sizeofInstanceTransform * lim.max_instances
        materialIndicesOffset ==
            alignStorageBufferOffset(alloc, totalTransformBytes)
        totalMaterialIndexBytes == 4 * lim.max_instances
        lightsOffset ==
            alignStorageBufferOffset(alloc, materialIndicesOffset +
                                            totalMaterialIndexBytes)
        totalLightParamBytes == lim.sizeofPackedLight * lim.max_lights
        envOffset ==
            alignStorageBufferOffset(alloc, lightsOffset + totalLightParamBytes)
        totalEnvParamBytes == lim.sizeofPackedEnv * batch_size
    IN  [totalTransformBytes |-> totalTransformBytes,
         materialIndicesOffset |-> materialIndicesOffset,
         totalMaterialIndexBytes |-> totalMaterialIndexBytes,
         lightsOffset |-> lightsOffset,
         totalLightParamBytes |-> totalLightParamBytes,
         envOffset |-> envOffset,
         totalEnvParamBytes |-> totalEnvParamBytes,
         totalParamBytes |->
            alignStorageBufferOffset(alloc, envOffset + totalEnvParamBytes)]

\* a backend whose constructor has run
InitParamBuilt ==
    /\ limits = DefaultLimits
    /\ param_cfg_ = getParamBufferConfig(cfg_.batchSize, limits, limits)

\* VulkanBackend's constructor: param_cfg_(getParamBufferConfig(cfg.batchSize, alloc))
ConstructParamCfg ==
    /\ ~crashed
    /\ param_cfg_ = NoParamCfg
    /\ param_cfg_' = getParamBufferConfig(cfg_.batchSize, limits, limits)
    /\ UNCHANGED <<sceneVars, renderVars, limits, objVars, fenceVars, bakeVars>>

\* ------------------------------------------------------------------- Init
InitSceneState ==
    /\ lock = LockFree
    /\ freeSceneIDs = <<>>
    /\ numSceneIDs = 0
    /\ addrData = [i \in 0..(max_scenes - 1) |-> 0]
    /\ lpc = [l \in Loaders |-> "idle"]
    /\ tracker = [l \in Loaders |-> NoTracker]
    /\ lslot = [l \in Loaders |-> 0]
    /\ sceneID = [s \in SceneSlots |-> NoTracker]
    /\ refs = [s \in SceneSlots |-> 0]
    /\ crashed = FALSE
    /\ reused = {}

\* ------------------------------------------------------- VulkanLoader::loadScene
SlotIsFree(s) == refs[s] = 0 /\ \A l \in Loaders : lslot[l] # s

\* entry: validation, upload on the transfer queue, BLAS build; no shared state
LoadBegin(l) ==
    /\ ~crashed
    /\ UNCHANGED <<paramVars, objVars, fenceVars, bakeVars>>
    /\ lpc[l] = "idle"
    /\ \E s \in SceneSlots :
          /\ SlotIsFree(s)
          /\ \A t \in SceneSlots : SlotIsFree(t) => s <= t
          /\ lslot' = [lslot EXCEPT ![l] = s]
    /\ lpc' = [lpc EXCEPT ![l] = "lock"]
    /\ UNCHANGED <<lock, freeSceneIDs, numSceneIDs, addrData, tracker,
                   sceneID, refs, crashed, reused,
                   renderVars>>

\* shared_scene_state_->lock.lock()
LoadLock(l) ==
    /\ ~crashed
    /\ UNCHANGED <<paramVars, objVars, fenceVars, bakeVars>>
    /\ lpc[l] = "lock"
    /\ lock = LockFree
    /\ lock' = LoaderThread(l)
    /\ lpc' = [lpc EXCEPT ![l] = "alloc"]
    /\ UNCHANGED <<freeSceneIDs, numSceneIDs, addrData, tracker, lslot,
                   sceneID, refs, crashed, reused,
                   renderVars>>

\* scene_id_tracker.emplace(*shared_scene_state_)
LoadAllocID(l) ==
    /\ ~crashed
    /\ UNCHANGED <<paramVars, objVars, fenceVars, bakeVars>>
    /\ lpc[l] = "alloc"
    /\ LET r == SceneIDCtor(freeSceneIDs, numSceneIDs) IN
          /\ tracker' = [tracker EXCEPT ![l] = r.obj]
          /\ freeSceneIDs' = r.free
          /\ numSceneIDs' = r.num
          /\ reused' = IF Len(freeSceneIDs) > 0
                       THEN reused \cup {r.obj.id} ELSE reused
    /\ lpc' = [lpc EXCEPT ![l] = "write"]
    /\ UNCHANGED <<lock, addrData, lslot, sceneID, refs, crashed,
                   renderVars>>

\* the scene's device addresses go into addrData[scene_id]; the table has
\* max_scenes entries, a write past it is out of bounds
LoadWriteTable(l) ==
    /\ ~crashed
    /\ UNCHANGED <<paramVars, objVars, fenceVars, bakeVars>>
    /\ lpc[l] = "write"
    /\ IF tracker[l].id < max_scenes
       THEN /\ addrData' = [addrData EXCEPT ![tracker[l].id] = lslot[l]]
            /\ crashed' = FALSE
       ELSE /\ addrData' = addrData
            /\ crashed' \in BOOLEAN
    /\ lpc' = [lpc EXCEPT ![l] = "unlock"]
    /\ UNCHANGED <<lock, freeSceneIDs, numSceneIDs, tracker, lslot,
                   sceneID, refs, reused,
                   renderVars>>

\* lock.unlock(); the tracker is moved into the new VulkanScene, the
\* moved-from tracker is destroyed on return, the caller gets the shared_ptr
LoadFinish(l) ==
    /\ ~crashed
    /\ UNCHANGED <<paramVars, objVars, fenceVars, bakeVars>>
    /\ lpc[l] = "unlock"
    /\ lock' = LockFree
    /\ LET m == SceneIDMove(tracker[l]) IN
          /\ sceneID' = [sceneID EXCEPT ![lslot[l]] = m.new]
          /\ freeSceneIDs' = SceneIDDtor(m.old, freeSceneIDs)
    /\ tracker' = [tracker EXCEPT ![l] = NoTracker]
    /\ refs' = [refs EXCEPT ![lslot[l]] = 1]
    /\ lslot' = [lslot EXCEPT ![l] = 0]
    /\ lpc' = [lpc EXCEPT ![l] = "idle"]
    /\ UNCHANGED <<numSceneIDs, addrData, crashed, reused,
                   renderVars>>

\* -------------------------------------------------------- Scene references
\* makeEnvironment(scene, cam), or a copy of the caller's shared_ptr
AddRef(s) ==
    /\ ~crashed
    /\ UNCHANGED <<paramVars, objVars, fenceVars, bakeVars>>
    /\ refs[s] > 0
    /\ refs[s] < MaxRefs
    /\ refs' = [refs EXCEPT ![s] = @ + 1]
    /\ UNCHANGED <<lock, freeSceneIDs, numSceneIDs, addrData, lpc, tracker,
                   lslot, sceneID, crashed, reused,
                   renderVars>>

\* an Environment is destroyed or the caller drops its shared_ptr; the last
\* release runs ~VulkanScene, whose ~SceneID takes the lock and pushes the id
Release(s) ==
    /\ ~crashed
    /\ UNCHANGED <<paramVars, objVars, fenceVars, bakeVars>>
    /\ refs[s] > 0
    /\ refs' = [refs EXCEPT ![s] = @ - 1]
    /\ IF refs[s] = 1
       THEN /\ lock = LockFree
            /\ freeSceneIDs' = SceneIDDtor(sceneID[s], freeSceneIDs)
            /\ sceneID' = [sceneID EXCEPT ![s] = NoTracker]
       ELSE UNCHANGED <<freeSceneIDs, sceneID>>
    /\ UNCHANGED <<lock, numSceneIDs, addrData, lpc, tracker, lslot,
                   crashed, reused,
                   renderVars>>

\* ------------------------------------------------- VulkanBackend::render
Used(b) == b < cfg_.batchSize

\* the caller mutates an environment between two render calls
SetDirty(b) ==
    /\ ~crashed
    /\ UNCHANGED packVars
    /\ UNCHANGED streamVars
    /\ UNCHANGED <<paramVars, objVars, fenceVars, bakeVars>>
    /\ rpc = "idle"
    /\ Used(b)
    /\ ~dirty[b]
    /\ dirty' = [dirty EXCEPT ![b] = TRUE]
    /\ UNCHANGED <<sceneVars, cfg_, curBuffer, cur_queue_, frame_counter_,
                   rtSets, rpc, retpc, adaptive_iter, num_tiles,
                   tileUnconverged, boundSet, calls, callStart, callSets,
                   streams, tlasBuilds, tlasRan, loopTrips, prevCur, callsLeft>>

\* the caller moves the camera of an environment between two calls
SetCamera(b, c) ==
    /\ ~crashed
    /\ rpc = "idle"
    /\ bpc = "idle"
    /\ callsLeft > 0
    /\ Used(b)
    /\ c # envs[b].cam
    /\ envs' = [envs EXCEPT ![b].cam = c]
    /\ UNCHANGED <<envPtr, ranges, prevEnvPtr>>
    /\ UNCHANGED <<sceneVars, paramVars, objVars, fenceVars, bakeVars>>
    /\ UNCHANGED <<cfg_, curBuffer, cur_queue_, frame_counter_, rtSets, dirty,
                   rpc, retpc, adaptive_iter, num_tiles, tileUnconverged,
                   boundSet, calls, callStart, callSets, streams, tlasBuilds,
                   tlasRan, loopTrips, prevCur, callsLeft, streamVars>>

\* VulkanEnvironment::addLight and removeLight between two calls: the light
\* list grows or shrinks by one
SetLights(b, n) ==
    /\ ~crashed
    /\ rpc = "idle"
    /\ bpc = "idle"
    /\ callsLeft > 0
    /\ Used(b)
    /\ n \in {envs[b].lights - 1, envs[b].lights + 1}
    /\ n \in 0..MaxEnvLights
    /\ envs' = [envs EXCEPT ![b].lights = n]
    /\ UNCHANGED <<envPtr, ranges, prevEnvPtr>>
    /\ UNCHANGED <<sceneVars, paramVars, objVars, fenceVars, bakeVars>>
    /\ UNCHANGED <<cfg_, curBuffer, cur_queue_, frame_counter_, rtSets, dirty,
                   rpc, retpc, adaptive_iter, num_tiles, tileUnconverged,
                   boundSet, calls, callStart, callSets, streams, tlasBuilds,
                   tlasRan, loopTrips, prevCur, callsLeft, streamVars>>

\* render is entered; the first startRenderSetup() is about to run
RenderBegin ==
    /\ ~crashed
    /\ UNCHANGED packVars
    /\ cmds' = <<>>
    /\ pastRtFrames' = pastRtFrames \cup RtFrames(cmds)
    /\ UNCHANGED <<tiling, tileInput>>
    /\ UNCHANGED <<paramVars, objVars, bakeVars>>
    /\ bpc = "idle"
    /\ fenceAtCall' = fence
    /\ loopWork' = ZeroWork
    /\ emptySeen' = NoEmptyPass
    /\ UNCHANGED <<fence, gpuUnderLock, awaiting>>
    /\ rpc = "idle"
    /\ callsLeft > 0
    /\ callsLeft' = callsLeft - 1
    /\ rpc' = "setup"
    /\ retpc' = "tlas"
    /\ callStart' = [curBuffer |-> curBuffer, cur_queue_ |-> cur_queue_,
                     dirty |-> dirty]
    /\ callSets' = {}
    /\ streams' = 0
    /\ tlasBuilds' = [b \in BatchSlots |-> 0]
    /\ tlasRan' = FALSE
    /\ loopTrips' = 0
    /\ UNCHANGED <<sceneVars, cfg_, curBuffer, cur_queue_, frame_counter_,
                   rtSets, dirty, adaptive_iter, num_tiles, tileUnconverged,
                   boundSet, calls, prevCur>>

\* shared_scene_state_.lock.lock()
\* (variant: the renderer goes on without waiting for the lock)
SetupLockAcquire_Unguarded(holder) == TRUE

SetupLockAcquire(holder) == holder = LockFree

\* shared_scene_state_.lock.unlock()
\* (variant: the lock is still held when startRenderSetup returns)
SetupLockRelease_Kept(holder) == holder

SetupLockRelease(holder) == LockFree

\* the environment map group a backend loaded and made active
DefaultEnvMaps == [loaded |-> TRUE]
\* cur_env_maps_(nullptr)
NoEnvMaps == [loaded |-> FALSE]

\* cur_env_maps_->descSet.hdl, cur_env_maps_->texData: through a null
\* pointer the use is undefined, with an outcome that is not determined
EnvMapUseOutcomes(maps) == IF maps.loaded THEN {FALSE} ELSE BOOLEAN

\* startRenderSetup up to and including the lock: reset the pool, begin the
\* command buffer, bind the pipeline, push constants, bind rtSets[curBuffer]
\* as set 0, the environment-map set and, in Biased mode, the probe set, then
\* take the Shared Scene State lock
SetupBegin ==
    /\ ~crashed
    /\ UNCHANGED packVars
    /\ cmds' = cmds \o SetupCommands(frame_counter_)
    /\ UNCHANGED <<tiling, tileInput, pastRtFrames>>
    /\ UNCHANGED <<paramVars, handleVars, queueVars, fbVars, fenceVars,
                   bakeVars>>
    /\ UNCHANGED <<scfg, render_state_, cur_env_maps_, numEnvironments>>
    /\ unsetGroupUsed' = (unsetGroupUsed \/ ~cur_env_maps_.loaded)
    /\ crashed' \in EnvMapUseOutcomes(cur_env_maps_)
    /\ rpc = "setup"
    /\ SetupLockAcquire(lock)
    /\ lock' = RenderThread
    /\ boundSet' = curBuffer
    /\ callSets' = callSets \cup {curBuffer}
    /\ streams' = streams + 1
    /\ rpc' = "setup_bind"
    /\ UNCHANGED <<freeSceneIDs, numSceneIDs, addrData, lpc, tracker, lslot,
                   sceneID, refs, reused>>
    /\ UNCHANGED <<cfg_, curBuffer, cur_queue_, frame_counter_, rtSets, dirty,
                   retpc, adaptive_iter, num_tiles, tileUnconverged, calls,
                   callStart, tlasBuilds, tlasRan, loopTrips, prevCur,
                   callsLeft>>

\* the shared-scene set is bound as set 1 and the lock is released;
\* startRenderSetup returns
SetupBindShared ==
    /\ ~crashed
    /\ UNCHANGED packVars
    /\ UNCHANGED streamVars
    /\ UNCHANGED <<paramVars, objVars, fenceVars, bakeVars>>
    /\ rpc = "setup_bind"
    /\ lock' = SetupLockRelease(lock)
    /\ rpc' = retpc
    /\ UNCHANGED <<freeSceneIDs, numSceneIDs, addrData, lpc, tracker, lslot,
                   sceneID, refs, crashed, reused>>
    /\ UNCHANGED <<cfg_, curBuffer, cur_queue_, frame_counter_, rtSets, dirty,
                   retpc, adaptive_iter, num_tiles, tileUnconverged, boundSet,
                   calls, callStart, callSets, streams, tlasBuilds, tlasRan,
                   loopTrips, prevCur, callsLeft>>

\* the TLAS loop over the batch and the barrier after it
TlasBuild ==
    /\ ~crashed
    /\ UNCHANGED packVars
    /\ cmds' = cmds \o TlasCommands(cfg_, dirty)
    /\ UNCHANGED <<tiling, tileInput, pastRtFrames>>
    /\ UNCHANGED <<paramVars, objVars, fenceVars, bakeVars>>
    /\ rpc = "tlas"
    /\ tlasBuilds' = [b \in BatchSlots |->
                        IF Used(b) THEN tlasBuilds[b] + TlasBuildCount(dirty[b])
                        ELSE tlasBuilds[b]]
    /\ dirty' = [b \in BatchSlots |->
                    IF Used(b) THEN TlasDirtyAfter(dirty[b]) ELSE dirty[b]]
    /\ tlasRan' = TRUE
    /\ rpc' = "pack"
    /\ UNCHANGED <<sceneVars, cfg_, curBuffer, cur_queue_, frame_counter_,
                   rtSets, retpc, adaptive_iter, num_tiles, tileUnconverged,
                   boundSet, calls, callStart, callSets, streams, loopTrips,
                   prevCur, callsLeft>>

\* the per-environment packing loop, the staging flush and the parameter copy
PackEnvs ==
    /\ ~crashed
    /\ rpc = "pack"
    /\ envPtr' = PackBatch(cfg_, envs, envPtr, RenderCam)
    /\ prevEnvPtr' = envPtr
    /\ envs' = SavePrevCams(cfg_, envs)
    /\ ranges' = WrittenRanges(cfg_, envs)
    /\ crashed' \in PackOutcomes(cfg_, envs, limits, param_cfg_)
    /\ cmds' = cmds \o PackCommands
    /\ UNCHANGED <<tiling, tileInput, pastRtFrames>>
    /\ UNCHANGED <<paramVars, objVars, fenceVars, bakeVars>>
    /\ rpc' = IF cfg_.adaptiveSampling THEN "adaptive_first" ELSE "plain"
    /\ UNCHANGED <<lock, freeSceneIDs, numSceneIDs, addrData, lpc, tracker,
                   lslot, sceneID, refs, reused>>
    /\ UNCHANGED <<cfg_, curBuffer, cur_queue_, frame_counter_,
                   rtSets, dirty, retpc, adaptive_iter, num_tiles,
                   tileUnconverged, boundSet, calls, callStart, callSets,
                   streams, tlasBuilds, tlasRan, loopTrips, prevCur, callsLeft>>

\* the non-adaptive trace: parameter barrier, one dispatch, frame counter
PlainDispatch ==
    /\ ~crashed
    /\ UNCHANGED packVars
    /\ cmds' = cmds \o PlainCommands(getLaunchSize(cfg_, tiling))
    /\ UNCHANGED <<tiling, tileInput, pastRtFrames>>
    /\ UNCHANGED <<paramVars, objVars, fenceVars, bakeVars>>
    /\ rpc = "plain"
    /\ frame_counter_' = AdvanceFrame(frame_counter_, cfg_.batchSize)
    /\ rpc' = AfterTrace(cfg_)
    /\ UNCHANGED <<sceneVars, cfg_, curBuffer, cur_queue_, rtSets, dirty,
                   retpc, adaptive_iter, num_tiles, tileUnconverged, boundSet,
                   calls, callStart, callSets, streams, tlasBuilds, tlasRan,
                   loopTrips, prevCur, callsLeft>>

\* adaptiveReadback copies from outputs[adaptiveIdx] and, unconditionally,
\* from outputs[illuminanceIdx]; an index outside the vector is an
\* out-of-bounds read whose outcome is not determined
ReadbackOutcomes(cfg) ==
    IF ValidOutput(cfg, makeFramebuffer(cfg).adaptiveIdx) /\
       ValidOutput(cfg, makeFramebuffer(cfg).illuminanceIdx)
    THEN {FALSE} ELSE BOOLEAN

\* VulkanConfig::max_tiles at model scale; makeRenderBatch makes the tile
\* input buffer for max_tiles * 2 InputTile entries
max_tiles == 12
tileInputCapacity == max_tiles * 2

\* writeTile stores to tileInputPtr[cur_tile_idx] and counts up, with no
\* test against the size of the buffer: a store past its end is outside the
\* allocation, with an outcome that is not determined
TileWriteOutcomes(written) ==
    IF written <= tileInputCapacity THEN {FALSE} ELSE BOOLEAN

\* the denoiser is handed outputs[hdrIdx], outputs[albedoIdx], outputs[normalIdx]
DenoiseOutcomes(cfg) ==
    IF ValidOutput(cfg, makeFramebuffer(cfg).hdrIdx) /\
       ValidOutput(cfg, makeFramebuffer(cfg).albedoIdx) /\
       ValidOutput(cfg, makeFramebuffer(cfg).normalIdx)
    THEN {FALSE} ELSE BOOLEAN

\* the adaptive branch up to the loop: buffer fills, the initial work list,
\* its dispatch, readback, submit,
\* fence wait and reset
AdaptiveFirstPass ==
    /\ ~crashed
    /\ UNCHANGED packVars
    /\ tileInput' = FirstPassTiles(cfg_, tiling)
    /\ cmds' = cmds \o FirstPassCommands(cfg_, Len(tileInput'))
                     \o SubmitWaitResetOps
    /\ UNCHANGED <<tiling, pastRtFrames>>
    /\ UNCHANGED <<paramVars, objVars, bakeVars>>
    /\ fence' = SubmitWaitReset(fence)
    /\ gpuUnderLock' = (gpuUnderLock \/ lock = RenderThread)
    /\ UNCHANGED <<fenceAtCall, loopWork, emptySeen, awaiting>>
    /\ rpc = "adaptive_first"
    /\ num_tiles' = Len(tileInput')
    /\ crashed' \in ReadbackOutcomes(cfg_) \cup
                     TileWriteOutcomes(Len(tileInput'))
    /\ tileUnconverged' \in BOOLEAN
    /\ adaptive_iter' = 0
    /\ rpc' = "adaptive_loop"
    /\ UNCHANGED <<lock, freeSceneIDs, numSceneIDs, addrData, lpc, tracker,
                   lslot, sceneID, refs, reused>>
    /\ UNCHANGED <<cfg_, curBuffer, cur_queue_, frame_counter_, rtSets, dirty,
                   retpc, boundSet, calls, callStart, callSets, streams,
                   tlasBuilds, tlasRan, loopTrips, prevCur, callsLeft>>

\* the convergence loop: at its head the for condition, the frame counter,
\* processAdaptiveTile over all tiles and the break; after the setup of a
\* further pass the barrier, dispatch, readback, submit, wait and increment.
\* Leaving the loop runs the startRenderSetup that follows it.
AdaptiveLoop ==
    /\ ~crashed
    /\ UNCHANGED packVars
    /\ cmds' = cmds \o
                IF rpc = "adaptive_loop"
                THEN LoopHeadOps(cfg_, tiling, adaptive_iter)
                ELSE LoopPassCommands(num_tiles) \o SubmitWaitResetOps
    /\ UNCHANGED <<tiling, tileInput, pastRtFrames>>
    /\ UNCHANGED <<paramVars, objVars, bakeVars>>
    /\ UNCHANGED <<fenceAtCall, awaiting>>
    /\ rpc \in {"adaptive_loop", "adaptive_dispatch"}
    /\ IF rpc = "adaptive_loop"
       THEN LET emitted == processAdaptiveTile(tileUnconverged)
                exit == AdaptiveLoopExit(adaptive_iter, emitted)
            IN  /\ frame_counter_' = IF exit = "cap" THEN frame_counter_
                                     ELSE AdvanceFrame(frame_counter_,
                                                       cfg_.batchSize)
                /\ loopTrips' = IF exit = "cap" THEN loopTrips ELSE loopTrips + 1
                /\ num_tiles' = IF exit = "cap" THEN num_tiles ELSE emitted
                /\ retpc' = IF exit = "none" THEN "adaptive_dispatch"
                            ELSE AfterTrace(cfg_)
                /\ rpc' = "setup"
                /\ emptySeen' = IF exit # "cap" /\ emitted = 0
                                 THEN [seen |-> TRUE, work |-> loopWork]
                                 ELSE emptySeen
                /\ UNCHANGED <<adaptive_iter, tileUnconverged, crashed,
                               fence, loopWork, gpuUnderLock>>
       ELSE /\ crashed' \in ReadbackOutcomes(cfg_)
            /\ tileUnconverged' \in BOOLEAN
            /\ adaptive_iter' = adaptive_iter + 1
            /\ rpc' = "adaptive_loop"
            /\ loopWork' = [dispatches |-> loopWork.dispatches + 1,
                            submits |-> loopWork.submits + 1]
            /\ fence' = SubmitWaitReset(fence)
            /\ gpuUnderLock' = (gpuUnderLock \/ lock = RenderThread)
            /\ UNCHANGED <<frame_counter_, loopTrips, num_tiles, retpc,
                           emptySeen>>
    /\ UNCHANGED <<lock, freeSceneIDs, numSceneIDs, addrData, lpc, tracker,
                   lslot, sceneID, refs, reused>>
    /\ UNCHANGED <<cfg_, curBuffer, cur_queue_, rtSets, dirty, boundSet, calls,
                   callStart, callSets, streams, tlasBuilds, tlasRan, prevCur,
                   callsLeft>>

\* denoise && mode == PathTracer: submit, wait, reset, run the denoiser on the
\* hdr, albedo and normal buffers, then startRenderSetup
DenoisePass ==
    /\ ~crashed
    /\ UNCHANGED packVars
    /\ cmds' = cmds \o SubmitWaitResetOps \o DenoiseOps
    /\ UNCHANGED <<tiling, tileInput, pastRtFrames>>
    /\ UNCHANGED <<paramVars, objVars, bakeVars>>
    /\ fence' = denoise(SubmitWaitReset(fence))
    /\ gpuUnderLock' = (gpuUnderLock \/ lock = RenderThread)
    /\ UNCHANGED <<fenceAtCall, loopWork, emptySeen, awaiting>>
    /\ rpc = "denoise"
    /\ crashed' \in DenoiseOutcomes(cfg_)
    /\ rpc' = "setup"
    /\ retpc' = "finish"
    /\ UNCHANGED <<lock, freeSceneIDs, numSceneIDs, addrData, lpc, tracker,
                   lslot, sceneID, refs, reused>>
    /\ UNCHANGED <<cfg_, curBuffer, cur_queue_, frame_counter_, rtSets, dirty,
                   adaptive_iter, num_tiles, tileUnconverged, boundSet, calls,
                   callStart, callSets, streams, tlasBuilds, tlasRan,
                   loopTrips, prevCur, callsLeft>>

\* the exposure and tonemap passes when tonemap is on, the final submitCmd,
\* then both indices are flipped and render returns
FinishRender ==
    /\ ~crashed
    /\ UNCHANGED packVars
    /\ cmds' = cmds \o FinishCommands(cfg_, getLaunchSize(cfg_, tiling))
    /\ UNCHANGED <<tiling, tileInput, pastRtFrames>>
    /\ UNCHANGED <<paramVars, objVars, bakeVars>>
    /\ fence' = submitCmd(fence)
    /\ gpuUnderLock' = (gpuUnderLock \/ lock = RenderThread)
    /\ awaiting' = TRUE
    /\ UNCHANGED <<fenceAtCall, loopWork, emptySeen>>
    /\ rpc = "finish"
    /\ curBuffer' = NextBuffer(curBuffer)
    /\ cur_queue_' = NextQueue(cur_queue_)
    /\ calls' = calls + 1
    /\ prevCur' = rtSets[boundSet][CurReservoirBinding]
    /\ rpc' = "idle"
    /\ UNCHANGED <<sceneVars, cfg_, frame_counter_, rtSets, dirty, retpc,
                   adaptive_iter, num_tiles, tileUnconverged, boundSet,
                   callStart, callSets, streams, tlasBuilds, tlasRan,
                   loopTrips, callsLeft>>

\* the device finishes the submission queued with the batch fence
GpuSignal ==
    /\ ~crashed
    /\ fence.pending > 0
    /\ fence' = GpuComplete(fence)
    /\ UNCHANGED <<sceneVars, renderVars, paramVars, objVars, bakeVars, fenceAtCall,
                   loopWork, emptySeen, gpuUnderLock, awaiting>>

\* VulkanBackend::waitForBatch: wait for the batch fence, then reset it
waitForBatch ==
    /\ ~crashed
    /\ rpc = "idle"
    /\ bpc = "idle"
    /\ fence.signaled
    /\ fence' = resetFence(waitForFenceInfinitely(fence))
    /\ gpuUnderLock' = (gpuUnderLock \/ lock = RenderThread)
    /\ awaiting' = FALSE
    /\ UNCHANGED <<sceneVars, renderVars, paramVars, objVars, bakeVars, fenceAtCall,
                   loopWork, emptySeen>>

SetupNext == SetupBegin \/ SetupBindShared

RenderPlainNext ==
    \/ RenderBegin
    \/ SetupNext
    \/ TlasBuild
    \/ PackEnvs
    \/ PlainDispatch
    \/ FinishRender

CallerNext == \E b \in BatchSlots : SetDirty(b)

RenderNext ==
    \/ RenderPlainNext
    \/ AdaptiveFirstPass
    \/ AdaptiveLoop
    \/ DenoisePass
    \/ CallerNext

LoaderNext ==
    \E l \in Loaders :
        \/ LoadBegin(l)
        \/ LoadLock(l)
        \/ LoadAllocID(l)
        \/ LoadWriteTable(l)
        \/ LoadFinish(l)

RefNext == \E s \in SceneSlots : AddRef(s) \/ Release(s)

\* ------------------------------------------------------ probe baking: data
\* PROBE_DIM at model scale: a row of ProbeDimX probes, or a cube of
\* ProbeDimCube probes a side
ProbeDimX == 3
ProbeDimCube == 2
RowGrid == <<ProbeDimX, 1, 1>>
CubeGrid == <<ProbeDimCube, ProbeDimCube, ProbeDimCube>>
\* static glm::ivec3 PROBE_DIM
PROBE_DIM == probeDim
PROBE_COUNT == PROBE_DIM[1] * PROBE_DIM[2] * PROBE_DIM[3]
\* bakeProbe: for (int i = 0; i < (int)cfg_.spp; i += 64)
BakeChunkSpp == 64
\* (variant: the loop ends after its first trip)
chunkLoopRuns_Once(i, spp) == i < 1

chunkLoopRuns(i, spp) == i < spp

\* the probe file is kept in 4-byte words
WordBytes == 4
\* words of one probe image at model scale, and Probe::size in bytes
ImageWords == 1
ProbeSize == WordBytes * ImageWords
\* content of memory nothing has written
UninitWord == 255
UninitImage == [w \in 1..ImageWords |-> UninitWord]

NoFile == [exists |-> FALSE, words |-> <<>>]

\* file.write(&PROBE_DIM, sizeof(PROBE_DIM)): three 4-byte integers
HeaderWords == PROBE_DIM
\* an 8-byte little-endian VkDeviceSize as two words (sizes written here are
\* below 2^32, so the high word is 0)
SizeFieldWords == 2
SizeWords(size) == <<size, 0>>

\* bake's positions loop: the grid cell of idx (the world position is
\* min + (right * x, up * y, forward * z), one position per cell)
\* (variant: the row index is not reduced by the number of rows)
GridCell_RowsUnreduced(idx) ==
    <<idx % PROBE_DIM[1],
      idx \div PROBE_DIM[1],
      (idx \div (PROBE_DIM[1] * PROBE_DIM[2])) % PROBE_DIM[3]>>

GridCell(idx) ==
    <<idx % PROBE_DIM[1],
      (idx \div PROBE_DIM[1]) % PROBE_DIM[2],
      (idx \div (PROBE_DIM[1] * PROBE_DIM[2])) % PROBE_DIM[3]>>

\* the image bakeProbe renders at a position: one image per position
bakeProbe(position) ==
    [w \in 1..ImageWords |->
        16 + position[1] + 4 * position[2] + 16 * position[3]]

\* the image bakeProbe renders at the position of a grid index
bakeProbeImage(idx) == bakeProbe(GridCell(idx))

\* serializeProbeToFile moves the image to TRANSFER_SRC_OPTIMAL with
\* oldLayout UNDEFINED, which lets the device discard its content before
\* the copy into the staging buffer
StagedForWrite(image) == {image, UninitImage}

\* the size field and the staged bytes of one record
RecordWords(staged) == SizeWords(ProbeSize) \o staged

\* the image deserializeProbeFromFile uploads: the first probe-image bytes
\* of the staging buffer, of which only the bytes read were written
StagingImage(data) ==
    [w \in 1..ImageWords |-> IF w <= Len(data) THEN data[w] ELSE UninitWord]

\* while (!file.eof()) probes_.push_back(deserializeProbeFromFile(file)),
\* entered with pos words consumed and eof clear. A read that ends exactly
\* at the end of the file leaves eof clear. undefined: a staging buffer was
\* made from a size that was never read, or from one no allocation satisfies
RECURSIVE ReadProbes(_, _)
ReadProbes(words, pos) ==
    LET remaining == Len(words) - pos
    IN  IF remaining < SizeFieldWords
        THEN [images |-> <<UninitImage>>, undefined |-> TRUE]
        ELSE LET lo == words[pos + 1]
                 hi == words[pos + 2]
                 avail == (remaining - SizeFieldWords) * WordBytes
                 body == pos + SizeFieldWords
             IN  IF hi = 0 /\ lo % WordBytes = 0 /\ lo <= avail
                 THEN LET n == lo \div WordBytes
                          rest == ReadProbes(words, body + n)
                      IN  [images |->
                              <<StagingImage(SubSeq(words, body + 1, body + n))>>
                                  \o rest.images,
                           undefined |-> rest.undefined]
                 ELSE [images |->
                          <<StagingImage(SubSeq(words, body + 1, Len(words)))>>,
                       undefined |-> TRUE]

\* the load branch of bake: header, probe_count, then the read loop
LoadProbeFile(file) ==
    IF ~file.exists
    THEN [probe_count |-> PROBE_COUNT, images |-> <<>>, undefined |-> FALSE]
    ELSE IF Len(file.words) < Len(HeaderWords)
    THEN [probe_count |-> PROBE_COUNT, images |-> <<>>, undefined |-> TRUE]
    ELSE LET r == ReadProbes(file.words, Len(HeaderWords))
         IN  [probe_count |-> file.words[1] * file.words[2] * file.words[3],
              images |-> r.images,
              undefined |-> r.undefined]

\* history entry for a header that a flush moves from the stream to the file
FlushedHeader(file, buffered) ==
    IF buffered = <<>> THEN <<>>
    ELSE <<[kind |-> "header", at |-> Len(file.words), idx |-> 0,
            image |-> buffered]>>

\* uint32_t left = probe_count - probes_.size(), before the wrap to uint32
Left(count, size) == count - size

\* state of a process that has constructed the backend and not baked
InitBakeGrid(bakes, restarts, grids) ==
    /\ probeDim \in grids
    /\ probeFile = NoFile
    /\ obuf = <<>>
    /\ probes_ = <<>>
    /\ probe_dset_ = <<>>
    /\ probe_count = PROBE_COUNT
    /\ positions = <<>>
    /\ start = 0
    /\ bakeI = 0
    /\ bpc = "idle"
    /\ bpret = "idle"
    /\ chunk = 0
    /\ probeFence = NewFence
    /\ bakesLeft = bakes
    /\ restartsLeft = restarts
    /\ bakeCalls = 0
    /\ entryFile = NoFile
    /\ loaded = <<>>
    /\ rendered = <<>>
    /\ appended = <<>>
    /\ fileLog = <<>>
    /\ bakeLog = <<>>

\* the same with a row of probes
InitBakeFor(bakes, restarts) == InitBakeGrid(bakes, restarts, {RowGrid})

\* ---------------------------------------------------- VulkanBackend::bake
\* bake up to its loop: the load branch when probes.bin exists, probe_gen_,
\* left, start and positions, then the ofstream is opened for appending
\* (creating the file) and the header is written to it. A wrapped left asks
\* for more positions than memory holds, which ends the process
bakeBegin ==
    /\ ~crashed
    /\ UNCHANGED probeDim
    /\ UNCHANGED bakeLog
    /\ rpc = "idle"
    /\ bpc = "idle"
    /\ bakesLeft > 0
    /\ bakesLeft' = bakesLeft - 1
    /\ LET r == LoadProbeFile(probeFile)
           all == probes_ \o r.images
           left == Left(r.probe_count, Len(all))
       IN  /\ crashed' \in (IF left < 0 THEN {TRUE}
                             ELSE IF r.undefined THEN BOOLEAN ELSE {FALSE})
           /\ probe_count' = r.probe_count
           /\ probes_' = all
           /\ loaded' = r.images
           /\ start' = Len(all)
           /\ positions' = IF left < 0 THEN <<>>
                            ELSE [i \in 1..left |->
                                     GridCell(Len(all) + (i - 1))]
    /\ entryFile' = probeFile
    /\ probeFile' = [probeFile EXCEPT !.exists = TRUE]
    /\ obuf' = HeaderWords
    /\ bakeI' = 0
    /\ rendered' = <<>>
    /\ appended' = <<>>
    /\ bpc' = "loop"
    /\ UNCHANGED <<lock, freeSceneIDs, numSceneIDs, addrData, lpc, tracker,
                   lslot, sceneID, refs, reused>>
    /\ UNCHANGED <<renderVars, paramVars, objVars, fenceVars>>
    /\ UNCHANGED <<probe_dset_, bpret, chunk, probeFence, restartsLeft,
                   bakeCalls, fileLog>>

\* the head of bake's loop: enter bakeProbe for positions[i], or leave the
\* loop: the ofstream is closed, which flushes it, and
\* makeProbeDescriptorSet binds the view of every probe in probes_
bakeLoop ==
    /\ ~crashed
    /\ UNCHANGED probeDim
    /\ bpc = "loop"
    /\ IF bakeI < Len(positions)
       THEN /\ bpc' = "bp_setup"
            /\ bpret' = "bp_tlas"
            /\ chunk' = 0
            /\ bakeLog' = <<>>
            /\ UNCHANGED <<probeFile, obuf, probe_dset_, bakeCalls, fileLog>>
       ELSE /\ probeFile' = [probeFile EXCEPT !.words = @ \o obuf]
            /\ fileLog' = fileLog \o FlushedHeader(probeFile, obuf)
            /\ obuf' = <<>>
            /\ probe_dset_' = probes_
            /\ bakeCalls' = bakeCalls + 1
            /\ bpc' = "idle"
            /\ UNCHANGED <<bpret, chunk, bakeLog>>
    /\ UNCHANGED <<sceneVars, renderVars, paramVars, objVars, fenceVars>>
    /\ UNCHANGED <<probes_, probe_count, positions, start, bakeI, probeFence,
                   bakesLeft, restartsLeft, entryFile, loaded, rendered,
                   appended>>

\* bakeProbe's startRenderSetup up to and including the lock
bakeSetupBegin ==
    /\ ~crashed
    /\ UNCHANGED probeDim
    /\ bakeLog' = Append(bakeLog, Cmd("begin", <<>>))
    /\ bpc = "bp_setup"
    /\ SetupLockAcquire(lock)
    /\ lock' = RenderThread
    /\ bpc' = "bp_bind"
    /\ UNCHANGED <<freeSceneIDs, numSceneIDs, addrData, lpc, tracker, lslot,
                   sceneID, refs, reused>>
    /\ UNCHANGED <<renderVars, paramVars, handleVars, queueVars, fbVars,
                   fenceVars>>
    /\ UNCHANGED <<scfg, render_state_, cur_env_maps_, numEnvironments>>
    /\ unsetGroupUsed' = (unsetGroupUsed \/ ~cur_env_maps_.loaded)
    /\ crashed' \in EnvMapUseOutcomes(cur_env_maps_)
    /\ UNCHANGED <<probeFile, obuf, probes_, probe_dset_, probe_count,
                   positions, start, bakeI, bpret, chunk, probeFence,
                   bakesLeft, restartsLeft, bakeCalls, entryFile, loaded,
                   rendered, appended, fileLog>>

\* the shared-scene set is bound and the lock released
bakeSetupBindShared ==
    /\ ~crashed
    /\ UNCHANGED probeDim
    /\ UNCHANGED bakeLog
    /\ bpc = "bp_bind"
    /\ lock' = SetupLockRelease(lock)
    /\ bpc' = bpret
    /\ UNCHANGED <<freeSceneIDs, numSceneIDs, addrData, lpc, tracker, lslot,
                   sceneID, refs, crashed, reused>>
    /\ UNCHANGED <<renderVars, paramVars, objVars, fenceVars>>
    /\ UNCHANGED <<probeFile, obuf, probes_, probe_dset_, probe_count,
                   positions, start, bakeI, bpret, chunk, probeFence,
                   bakesLeft, restartsLeft, bakeCalls, entryFile, loaded,
                   rendered, appended, fileLog>>

\* bakeProbe: cmdFillBuffer of the output and of the hdr buffer, and the
\* barrier ahead of the dispatches
BakeFillOps ==
    <<Cmd("fill", <<0>>), Cmd("fill", <<1>>), Cmd("barrier", <<0>>)>>

\* bakeProbe's TLAS loop, barrier, packing loop, parameter copy and fills
bakeTlasPack ==
    /\ ~crashed
    /\ UNCHANGED probeDim
    /\ bakeLog' = bakeLog \o BakeFillOps
    /\ bpc = "bp_tlas"
    /\ envPtr' = PackBatch(cfg_, envs, envPtr, BakeCam(positions[bakeI + 1]))
    /\ envs' = SavePrevCams(cfg_, envs)
    /\ ranges' = WrittenRanges(cfg_, envs)
    /\ crashed' \in PackOutcomes(cfg_, envs, limits, param_cfg_)
    /\ UNCHANGED prevEnvPtr
    /\ UNCHANGED streamVars
    /\ dirty' = [b \in BatchSlots |->
                    IF Used(b) THEN TlasDirtyAfter(dirty[b]) ELSE dirty[b]]
    /\ bpc' = "bp_chunk"
    /\ UNCHANGED <<lock, freeSceneIDs, numSceneIDs, addrData, lpc, tracker,
                   lslot, sceneID, refs, reused>>
    /\ UNCHANGED <<paramVars, objVars, fenceVars>>
    /\ UNCHANGED <<cfg_, curBuffer, cur_queue_, frame_counter_, rtSets, rpc,
                   retpc, adaptive_iter, num_tiles, tileUnconverged, boundSet,
                   calls, callStart, callSets, streams, tlasBuilds, tlasRan,
                   loopTrips, prevCur, callsLeft>>
    /\ UNCHANGED <<probeFile, obuf, probes_, probe_dset_, probe_count,
                   positions, start, bakeI, bpret, chunk, probeFence,
                   bakesLeft, restartsLeft, bakeCalls, entryFile, loaded,
                   rendered, appended, fileLog>>

\* the head of the sample-chunk loop: push constants, dispatch and submitCmd
\* of one chunk, or, after the last chunk, the frame counter and the final
\* submitCmd
bakeChunk ==
    /\ ~crashed
    /\ UNCHANGED probeDim
    /\ bakeLog' = bakeLog \o
          (IF chunkLoopRuns(chunk * BakeChunkSpp, tiling.spp)
           THEN <<Cmd("dispatch_rt", <<chunk>>)>> ELSE <<>>) \o
          <<Cmd("submit", <<>>)>>
    /\ UNCHANGED packVars
    /\ UNCHANGED streamVars
    /\ bpc = "bp_chunk"
    /\ probeFence' = submitCmd(probeFence)
    /\ gpuUnderLock' = (gpuUnderLock \/ lock = RenderThread)
    /\ IF chunkLoopRuns(chunk * BakeChunkSpp, tiling.spp)
       THEN /\ bpc' = "bp_chunk_wait"
            /\ UNCHANGED frame_counter_
       ELSE /\ bpc' = "bp_final_wait"
            /\ frame_counter_' = frame_counter_ + cfg_.batchSize
    /\ UNCHANGED <<sceneVars, paramVars, objVars>>
    /\ UNCHANGED <<cfg_, curBuffer, cur_queue_, rtSets, dirty, rpc,
                   retpc, adaptive_iter, num_tiles, tileUnconverged, boundSet,
                   calls, callStart, callSets, streams, tlasBuilds, tlasRan,
                   loopTrips, prevCur, callsLeft>>
    /\ UNCHANGED <<fence, fenceAtCall, loopWork, emptySeen, awaiting>>
    /\ UNCHANGED <<probeFile, obuf, probes_, probe_dset_, probe_count,
                   positions, start, bakeI, bpret, chunk, bakesLeft,
                   restartsLeft, bakeCalls, entryFile, loaded, rendered,
                   appended, fileLog>>

\* the device finishes the submission queued with probe_gen_'s fence
bakeGpuSignal ==
    /\ ~crashed
    /\ UNCHANGED probeDim
    /\ UNCHANGED bakeLog
    /\ probeFence.pending > 0
    /\ probeFence' = GpuComplete(probeFence)
    /\ UNCHANGED <<sceneVars, renderVars, paramVars, objVars, fenceVars>>
    /\ UNCHANGED <<probeFile, obuf, probes_, probe_dset_, probe_count,
                   positions, start, bakeI, bpc, bpret, chunk, bakesLeft,
                   restartsLeft, bakeCalls, entryFile, loaded, rendered,
                   appended, fileLog>>

\* waitForFenceInfinitely and resetFence after a submission of bakeProbe:
\* inside the chunk loop startRenderSetup follows, after the final
\* submission the probe texture is made
bakeWait ==
    /\ ~crashed
    /\ UNCHANGED probeDim
    /\ bakeLog' = bakeLog \o <<Cmd("wait", <<>>), Cmd("reset", <<>>)>>
    /\ bpc \in {"bp_chunk_wait", "bp_final_wait"}
    /\ probeFence.signaled
    /\ probeFence' = resetFence(waitForFenceInfinitely(probeFence))
    /\ gpuUnderLock' = (gpuUnderLock \/ lock = RenderThread)
    /\ IF bpc = "bp_chunk_wait"
       THEN /\ chunk' = chunk + 1
            /\ bpc' = "bp_setup"
            /\ bpret' = "bp_chunk"
       ELSE /\ bpc' = "bp_texture"
            /\ UNCHANGED <<chunk, bpret>>
    /\ UNCHANGED <<sceneVars, renderVars, paramVars, objVars>>
    /\ UNCHANGED <<fence, fenceAtCall, loopWork, emptySeen, awaiting>>
    /\ UNCHANGED <<probeFile, obuf, probes_, probe_dset_, probe_count,
                   positions, start, bakeI, bakesLeft, restartsLeft,
                   bakeCalls, entryFile, loaded, rendered, appended, fileLog>>

\* the end of bakeProbe and the rest of bake's loop body:
\* makeProbeTextureData copies the output into the new Probe's image, the
\* copy is submitted with a fence of its own and waited for; bake pushes the
\* Probe, serializeProbeToFile(file, i) writes probes_[i], file.flush()
bakeAppend ==
    /\ ~crashed
    /\ UNCHANGED probeDim
    /\ bakeLog' = Append(bakeLog, Cmd("return", <<>>))
    /\ bpc = "bp_texture"
    /\ gpuUnderLock' = (gpuUnderLock \/ lock = RenderThread)
    /\ LET idx == start + bakeI
           pushed == Append(probes_, bakeProbe(positions[bakeI + 1]))
       IN  /\ probes_' = pushed
           /\ rendered' = Append(rendered, positions[bakeI + 1])
           /\ \E staged \in StagedForWrite(pushed[bakeI + 1]) :
                /\ probeFile' = [probeFile EXCEPT
                                    !.words = @ \o obuf \o RecordWords(staged)]
                /\ appended' = Append(appended,
                                      [idx |-> idx, image |-> staged])
                /\ fileLog' = fileLog \o FlushedHeader(probeFile, obuf) \o
                                  <<[kind |-> "record",
                                     at |-> Len(probeFile.words) + Len(obuf),
                                     idx |-> idx, image |-> staged]>>
    /\ obuf' = <<>>
    /\ bakeI' = bakeI + 1
    /\ bpc' = "loop"
    /\ UNCHANGED <<sceneVars, renderVars, paramVars, objVars>>
    /\ UNCHANGED <<fence, fenceAtCall, loopWork, emptySeen, awaiting>>
    /\ UNCHANGED <<probe_dset_, probe_count, positions, start, bpret, chunk,
                   probeFence, bakesLeft, restartsLeft, bakeCalls, entryFile,
                   loaded>>

\* the process ends and a new one constructs the backend: after bake has
\* returned, or between two probes of a running bake (what was flushed
\* stays on disk)
Restart ==
    /\ ~crashed
    /\ UNCHANGED probeDim
    /\ UNCHANGED bakeLog
    /\ UNCHANGED packVars
    /\ cmds' = <<>>
    /\ tileInput' = <<>>
    /\ pastRtFrames' = {}
    /\ UNCHANGED tiling
    /\ rpc = "idle"
    /\ \/ bpc = "idle" /\ bakeCalls > 0
       \/ bpc = "loop" /\ bakeI > 0 /\ bakeI < Len(positions)
    /\ restartsLeft > 0
    /\ restartsLeft' = restartsLeft - 1
    /\ probes_' = <<>>
    /\ probe_dset_' = <<>>
    /\ obuf' = <<>>
    /\ positions' = <<>>
    /\ start' = 0
    /\ bakeI' = 0
    /\ probe_count' = PROBE_COUNT
    /\ bakeCalls' = 0
    /\ bpc' = "idle"
    /\ probeFence' = NewFence
    /\ frame_counter_' = 0
    /\ dirty' = [b \in BatchSlots |-> TRUE]
    /\ UNCHANGED <<sceneVars, paramVars, objVars, fenceVars>>
    /\ UNCHANGED <<cfg_, curBuffer, cur_queue_, rtSets, rpc,
                   retpc, adaptive_iter, num_tiles, tileUnconverged, boundSet,
                   calls, callStart, callSets, streams, tlasBuilds, tlasRan,
                   loopTrips, prevCur, callsLeft>>
    /\ UNCHANGED <<probeFile, bpret, chunk, bakesLeft, entryFile,
                   loaded, rendered, appended, fileLog>>

bakeProbeNext ==
    \/ bakeSetupBegin
    \/ bakeSetupBindShared
    \/ bakeTlasPack
    \/ bakeChunk
    \/ bakeGpuSignal
    \/ bakeWait

BakeNext == bakeBegin \/ bakeLoop \/ bakeProbeNext \/ bakeAppend

\* ------------------------------------------------------------------ handles
\* EnvironmentImpl, LoaderImpl and RendererImpl: a destroy operation, one
\* operation pointer per public method and a pointer to the instance
HandleKinds == {"Environment", "Loader", "Renderer"}

\* the backend classes makeEnvironmentImpl, makeLoaderImpl and
\* makeRendererImpl are instantiated with
BackendTypes == {"Vulkan", "Other"}

MaxHandles == 2
MaxObjects == 3
Handles == 1..MaxHandles
Objects == 1..MaxObjects

NullPtr == 0

\* the private operation-pointer members of each class
MethodPtrs(kind) ==
    CASE kind = "Environment" -> {"add_light_ptr_", "remove_light_ptr_"}
      [] kind = "Loader" -> {"load_scene_ptr_", "load_env_maps_ptr_"}
      [] kind = "Renderer" ->
            {"make_baker_ptr_", "make_loader_ptr_", "make_env_ptr_",
             "set_env_maps_ptr_", "make_batch_ptr_", "render_ptr_",
             "bake_ptr_", "wait_ptr_", "get_output_ptr_",
             "get_bake_output_ptr_", "get_aux_ptr_"}

\* the members named in the initialiser list of each move constructor
MoveCtorInit(kind) ==
    CASE kind = "Environment" -> {"add_light_ptr_", "remove_light_ptr_"}
      [] kind = "Loader" -> {"load_scene_ptr_", "load_env_maps_ptr_"}
      [] kind = "Renderer" ->
            {"make_loader_ptr_", "make_env_ptr_", "set_env_maps_ptr_",
             "render_ptr_", "bake_ptr_", "wait_ptr_", "get_output_ptr_",
             "get_bake_output_ptr_", "get_aux_ptr_"}

\* the members assigned by each move assignment operator
MoveAssignSet(kind) ==
    CASE kind = "Environment" -> {"add_light_ptr_", "remove_light_ptr_"}
      [] kind = "Loader" -> {"load_scene_ptr_"}
      [] kind = "Renderer" ->
            {"make_loader_ptr_", "make_env_ptr_", "render_ptr_", "wait_ptr_",
             "get_output_ptr_", "get_aux_ptr_"}

\* destroyEnvironment<T>, destroyLoader<T>, destroyRenderer<T>
DestroyOf(kind, type) == [type |-> type, op |-> "destroy"]

\* &T::member, as the make...Impl templates capture it
MethodOf(type, member) == [type |-> type, op |-> member]

\* the value of a member that was never initialised
Indeterminate == [type |-> "none", op |-> "indeterminate"]

\* what a member that was never initialised can be read as
UninitValues(member) ==
    {Indeterminate} \cup {MethodOf(t, member) : t \in BackendTypes}

\* storage that holds no handle object
NoHandle(kind) ==
    [alive |-> FALSE, destroy_ptr_ |-> Indeterminate,
     ptrs |-> [m \in MethodPtrs(kind) |-> Indeterminate], state_ |-> NullPtr]

NoObject == [type |-> "none", destroys |-> 0, destroyedBy |-> Indeterminate]

NoMove == [op |-> "none", dst |-> 0, src |-> 0, from |-> NoHandle(hkind),
           held |-> NullPtr]

\* makeEnvironmentImpl<T>(ptr), makeLoaderImpl<T>(ptr), makeRendererImpl<T>(ptr)
makeImpl(kind, type, ptr) ==
    [alive |-> TRUE, destroy_ptr_ |-> DestroyOf(kind, type),
     ptrs |-> [m \in MethodPtrs(kind) |-> MethodOf(type, m)], state_ |-> ptr]

\* the initialiser list of the move constructor; uninit gives the members
\* it leaves out
MoveConstructed(kind, o, uninit) ==
    [alive |-> TRUE, destroy_ptr_ |-> o.destroy_ptr_,
     ptrs |-> [m \in MethodPtrs(kind) |->
                 IF m \in MoveCtorInit(kind) THEN o.ptrs[m] ELSE uninit[m]],
     state_ |-> o.state_]

\* the assignments of operator=(&&)
MoveAssigned(kind, self, o) ==
    [self EXCEPT !.destroy_ptr_ = o.destroy_ptr_,
                 !.ptrs = [m \in MethodPtrs(kind) |->
                             IF m \in MoveAssignSet(kind) THEN o.ptrs[m]
                             ELSE self.ptrs[m]],
                 !.state_ = o.state_]

\* o.state_ = nullptr
\* (variant: the source keeps its instance pointer)
MovedFrom_Kept(o) == o

MovedFrom(o) == [o EXCEPT !.state_ = NullPtr]

\* if (state_) invoke(destroy_ptr_, state_)
invokeDestroy(objs, h) ==
    IF h.state_ # NullPtr
    THEN [objs EXCEPT ![h.state_].destroys = @ + 1,
                      ![h.state_].destroyedBy = h.destroy_ptr_]
    ELSE objs

InitObjFor(kinds) ==
    /\ hkind \in kinds
    /\ handles = [h \in Handles |-> NoHandle(hkind)]
    /\ instances = [i \in Objects |-> NoObject]
    /\ lastMove = NoMove

\* VulkanBackend::makeLoader, makeEnvironment, makeVulkanBackend: a new
\* instance and the handle that owns it
MakeHandle(h, type) ==
    /\ ~handles[h].alive
    /\ \E i \in Objects :
        /\ instances[i].type = "none"
        /\ \A j \in Objects : j < i => instances[j].type # "none"
        /\ instances' = [instances EXCEPT ![i].type = type]
        /\ handles' = [handles EXCEPT ![h] = makeImpl(hkind, type, i)]
    /\ lastMove' = NoMove
    /\ UNCHANGED <<sceneVars, renderVars, paramVars, fenceVars, bakeVars, queueVars,
                   fbVars, apiVars, hkind>>

\* EnvironmentImpl(EnvironmentImpl &&), LoaderImpl(LoaderImpl &&),
\* RendererImpl(RendererImpl &&)
MoveConstruct(dst, src) ==
    /\ dst # src
    /\ ~handles[dst].alive
    /\ handles[src].alive
    /\ \E uninit \in [MethodPtrs(hkind) \ MoveCtorInit(hkind) ->
                        UNION {UninitValues(m) : m \in MethodPtrs(hkind)}] :
        /\ \A m \in DOMAIN uninit : uninit[m] \in UninitValues(m)
        /\ handles' = [handles EXCEPT
                         ![dst] = MoveConstructed(hkind, handles[src], uninit),
                         ![src] = MovedFrom(@)]
    /\ lastMove' = [op |-> "construct", dst |-> dst, src |-> src,
                    from |-> handles[src], held |-> NullPtr]
    /\ UNCHANGED <<sceneVars, renderVars, paramVars, fenceVars, bakeVars,
                   queueVars, fbVars, apiVars, hkind, instances>>

\* operator=(EnvironmentImpl &&), operator=(LoaderImpl &&),
\* operator=(RendererImpl &&)
MoveAssign(dst, src) ==
    /\ handles[dst].alive
    /\ handles[src].alive
    /\ instances' = invokeDestroy(instances, handles[dst])
    /\ LET assigned == [handles EXCEPT
                          ![dst] = MoveAssigned(hkind, @, handles[src])]
       IN  handles' = [assigned EXCEPT ![src] = MovedFrom(@)]
    /\ lastMove' = [op |-> "assign", dst |-> dst, src |-> src,
                    from |-> handles[src], held |-> handles[dst].state_]
    /\ UNCHANGED <<sceneVars, renderVars, paramVars, fenceVars, bakeVars, queueVars,
                   fbVars, apiVars, hkind>>

\* ~EnvironmentImpl, ~LoaderImpl, ~RendererImpl
Destruct(h) ==
    /\ handles[h].alive
    /\ instances' = invokeDestroy(instances, handles[h])
    /\ handles' = [handles EXCEPT ![h] = NoHandle(hkind)]
    /\ lastMove' = NoMove
    /\ UNCHANGED <<sceneVars, renderVars, paramVars, fenceVars, bakeVars, queueVars,
                   fbVars, apiVars, hkind>>

HandleNext ==
    \/ \E h \in Handles, t \in BackendTypes : MakeHandle(h, t)
    \/ \E dst \in Handles, src \in Handles : MoveConstruct(dst, src)
    \/ \E dst \in Handles, src \in Handles : MoveAssign(dst, src)
    \/ \E h \in Handles : Destruct(h)

\* ------------------------------------------------------------------- queues
\* largest cfg.numLoaders and largest queue counts of a device tried
MaxCfgLoaders == 3
MaxTransferQueues == 3
MaxComputeQueues == 5

Max(a, b) == IF a > b THEN a ELSE b

QueueConfigs ==
    [numLoaders : 0..MaxCfgLoaders, numTransferQueues : 1..MaxTransferQueues,
     numComputeQueues : 1..MaxComputeQueues]

\* the queues makeDevice asks for: cfg.numLoaders transfer queues and
\* 2 + cfg.numLoaders compute queues
RequestedQueues(n) ==
    [numLoaders |-> n, numTransferQueues |-> n, numComputeQueues |-> 2 + n]

\* max((int)dev.numComputeQueues - 2, 0)
NumTransferComputeQueues(numComputeQueues) == Max(numComputeQueues - 2, 0)

\* initTransferQueues: the shared flag of every transfer queue
initTransferQueues(q) ==
    LET transfer_shared == q.numLoaders > q.numTransferQueues
    IN  [i \in 0..(q.numTransferQueues - 1) |-> transfer_shared]

\* bool shared = num_transfer_compute_queues == 0 || (i >= 2 && loaders_shared)
\* (variant: only the queues handed to loaders alone can be shared)
ComputeShared_LoadersOnly(i, num_transfer_compute_queues, loaders_shared) ==
    i >= 2 /\ loaders_shared

ComputeShared(i, num_transfer_compute_queues, loaders_shared) ==
    num_transfer_compute_queues = 0 \/ (i >= 2 /\ loaders_shared)

\* initComputeQueues: the shared flag of every compute queue
initComputeQueues(q) ==
    LET num_transfer_compute_queues ==
            NumTransferComputeQueues(q.numComputeQueues)
        loaders_shared == q.numLoaders > num_transfer_compute_queues
    IN  [i \in 0..(q.numComputeQueues - 1) |->
            ComputeShared(i, num_transfer_compute_queues, loaders_shared)]

InitQueuesFor(qs) ==
    /\ qcfg \in qs
    /\ transfer_queues_ = initTransferQueues(qcfg)
    /\ compute_queues_ = initComputeQueues(qcfg)
    /\ num_loaders_ = 0
    /\ loaderQueues = <<>>

\* VulkanBackend::makeLoader
makeLoader ==
    LET loader_idx == num_loaders_
        num_transfer_compute_queues ==
            NumTransferComputeQueues(qcfg.numComputeQueues)
        compute_queue_idx ==
            IF num_transfer_compute_queues = 0 THEN 0
            ELSE (loader_idx % num_transfer_compute_queues) + 2
    IN  /\ loader_idx < qcfg.numLoaders
        /\ num_loaders_' = num_loaders_ + 1
        /\ loaderQueues' =
              Append(loaderQueues,
                     [transfer |-> loader_idx % qcfg.numTransferQueues,
                      compute |-> compute_queue_idx])
        /\ UNCHANGED <<sceneVars, renderVars, paramVars, fenceVars, bakeVars,
                       handleVars, fbVars, apiVars, qcfg, transfer_queues_,
                       compute_queues_>>

\* ------------------------------------------------------- framebuffer layout
\* largest batch size and largest VulkanConfig::minibatch_divisor tried
MaxFbBatch == 6
MaxMinibatchDivisor == 2

\* image sizes tried, from one pixel to sizes whose batch passes 2^32 bytes
ImageWidths == {1, 3, 16, 1920, 32768}
ImageHeights == {1, 2, 16, 1080, 16384}

RenderConfigs ==
    [batchSize : 1..MaxFbBatch, imgWidth : ImageWidths,
     imgHeight : ImageHeights, minibatch_divisor : 1..MaxMinibatchDivisor]

\* a number too large for one model integer is kept as <<high, low>>, its
\* value being high * 2^16 + low
W16 == 65536
Wide(n) == <<n \div W16, n % W16>>
\* x * k, for k <= 2^15
MulWide(x, k) == LET p == x[2] * k IN <<x[1] * k + (p \div W16), p % W16>>
\* conversion to uint32_t: the value modulo 2^32
U32(x) == <<x[1] % W16, x[2]>>
\* the number as a model integer, for numbers below 2^31
Narrow(x) == x[1] * W16 + x[2]

\* ceil(sqrt(batch_size))
RECURSIVE CeilSqrtFrom(_, _)
CeilSqrtFrom(n, r) == IF r * r >= n THEN r ELSE CeilSqrtFrom(n, r + 1)
CeilSqrt(n) == CeilSqrtFrom(n, 0)

\* while (batch_size % batch_fb_images_wide != 0) batch_fb_images_wide++
RECURSIVE NextDivisor(_, _)
NextDivisor(batch_size, wide) ==
    IF batch_size % wide # 0 THEN NextDivisor(batch_size, wide + 1) ELSE wide

\* uint32_t output_bytes = 4 * sizeof(uint16_t) * pixels_per_batch
\* (variant: two bytes per pixel channel are counted once)
OutputBytes_OneHalf(pixels_per_batch) == U32(MulWide(pixels_per_batch, 2))

OutputBytes(pixels_per_batch) == U32(MulWide(pixels_per_batch, 4 * 2))

NoFbConfig == [computed |-> FALSE]

\* getFramebufferConfig; asserts tells whether every assert passed
getFramebufferConfig(cfg) ==
    LET batch_size == cfg.batchSize
        minibatch_size ==
            Max(batch_size \div cfg.minibatch_divisor, batch_size)
        assert1 == batch_size % minibatch_size = 0
        batch_fb_images_wide == NextDivisor(batch_size, CeilSqrt(batch_size))
        inFirst == batch_fb_images_wide >= minibatch_size
        assert2 == inFirst => batch_fb_images_wide % minibatch_size = 0
        minibatch_fb_images_wide ==
            IF inFirst THEN minibatch_size ELSE batch_fb_images_wide
        minibatch_fb_images_tall ==
            IF inFirst THEN 1 ELSE minibatch_size \div batch_fb_images_wide
        assert3 ==
            minibatch_fb_images_wide * minibatch_fb_images_tall =
                minibatch_size
        batch_fb_images_tall == batch_size \div batch_fb_images_wide
        assert4 == batch_fb_images_wide * batch_fb_images_tall = batch_size
        batch_fb_width == U32(MulWide(Wide(cfg.imgWidth), batch_fb_images_wide))
        batch_fb_height ==
            U32(MulWide(Wide(cfg.imgHeight), batch_fb_images_tall))
        pixels_per_batch ==
            U32(MulWide(batch_fb_width, Narrow(batch_fb_height)))
    IN  [computed |-> TRUE,
         asserts |-> assert1 /\ assert2 /\ assert3 /\ assert4,
         imgWidth |-> cfg.imgWidth,
         imgHeight |-> cfg.imgHeight,
         miniBatchSize |-> minibatch_size,
         numImagesWidePerMiniBatch |-> minibatch_fb_images_wide,
         numImagesTallPerMiniBatch |-> minibatch_fb_images_tall,
         numImagesWidePerBatch |-> batch_fb_images_wide,
         numImagesTallPerBatch |-> batch_fb_images_tall,
         frameWidth |-> batch_fb_width,
         frameHeight |-> batch_fb_height,
         outputBytes |-> OutputBytes(pixels_per_batch),
         hdrBytes |-> U32(MulWide(pixels_per_batch, 4 * 4)),
         normalBytes |-> U32(MulWide(pixels_per_batch, 3 * 2)),
         albedoBytes |-> U32(MulWide(pixels_per_batch, 3 * 2))]

NoBuffer == <<-1, -1>>

InitFbFor(rcfgs) ==
    /\ rcfg_ \in rcfgs
    /\ fb_cfg_ = NoFbConfig
    /\ exportedBytes = NoBuffer

\* the default RenderConfig of a backend with batch size n
SmallRenderConfig(n) ==
    [batchSize |-> n, imgWidth |-> 1, imgHeight |-> 1, minibatch_divisor |-> 1]

\* VulkanBackend::VulkanBackend: fb_cfg_(getFramebufferConfig(cfg)); a failed
\* assert ends the process
ConstructFbCfg ==
    /\ ~crashed
    /\ ~fb_cfg_.computed
    /\ fb_cfg_' = getFramebufferConfig(rcfg_)
    /\ crashed' = ~fb_cfg_'.asserts
    /\ UNCHANGED <<lock, freeSceneIDs, numSceneIDs, addrData, lpc, tracker,
                   lslot, sceneID, refs, reused>>
    /\ UNCHANGED <<renderVars, paramVars, fenceVars, bakeVars, handleVars,
                   queueVars, apiVars, rcfg_, exportedBytes>>

\* makeFramebuffer (from makeRenderBatch): the main output buffer is
\* allocated and exported with fb_cfg.outputBytes
ExportOutputBuffer ==
    /\ ~crashed
    /\ fb_cfg_.computed
    /\ exportedBytes = NoBuffer
    /\ exportedBytes' = fb_cfg_.outputBytes
    /\ UNCHANGED <<sceneVars, renderVars, paramVars, fenceVars, bakeVars,
                   handleVars, queueVars, apiVars, rcfg_, fb_cfg_>>

\* ------------------------------------------- makeRenderState: the sampler
\* image sides and samples per pixel tried: the smallest ones, and the ones
\* on either side of the 32 bit Morton index limit
MaxSide == 1048576
MaxStateSpp == 65536
StateSides == {1, 2, 3, 5, 256, 257, 65536, 65537, MaxSide}
StateSpps == {1, 2, 3, 4, 8, 64, 256, MaxStateSpp}
\* VulkanConfig::adaptive_samples_per_thread at model scale
StateSamplesPerThread == 2

StateConfigs ==
    [imgWidth : StateSides, imgHeight : {1, 2, 257, MaxSide}, spp : StateSpps,
     AdaptiveSample : BOOLEAN, ForceUniform : BOOLEAN]

DefaultStateConfig ==
    [imgWidth |-> 2, imgHeight |-> 2, spp |-> 1, AdaptiveSample |-> FALSE,
     ForceUniform |-> FALSE]

NoRenderState ==
    [built |-> FALSE, exited |-> FALSE, warned |-> FALSE, sampling |-> "none"]

\* the number of binary digits of v
RECURSIVE BitLength(_)
BitLength(v) == IF v = 0 THEN 0 ELSE 1 + BitLength(v \div 2)

\* __builtin_clz(v) of a uint32_t: undefined for 0, where a build gives the
\* bsr or the lzcnt result
builtin_clz(v) == IF v = 0 THEN {0, 31, 32} ELSE {32 - BitLength(v)}

\* makeRenderState: auto log2Int = [](uint32_t v)
log2Int(clz) == 32 - clz - 1

\* makeRenderState: num_index_digits_base4
num_index_digits_base4_NoSpp(cfg, clz_side, clz_spp) ==
    log2Int(clz_side) + 1

num_index_digits_base4(cfg, clz_side, clz_spp) ==
    log2Int(clz_side) + 1 + (log2Int(clz_spp) + 1) \div 2

\* makeRenderState: the sampling define, with the warning of the fallback
samplingDefine(cfg, clz_side, clz_spp) ==
    LET enough == num_index_digits_base4(cfg, clz_side, clz_spp) * 2 <= 32
    IN  [built |-> TRUE, exited |-> FALSE, warned |-> ~enough,
         sampling |-> IF cfg.ForceUniform \/ ~enough THEN "UNIFORM_SAMPLING"
                      ELSE "ZSOBOL_SAMPLING"]

\* makeRenderState up to the shader defines: the adaptive check ends the
\* process, the fallback to uniform sampling only warns
makeRenderState ==
    /\ ~crashed
    /\ ~render_state_.built
    /\ IF scfg.AdaptiveSample /\ scfg.spp < StateSamplesPerThread
       THEN /\ render_state_' = [NoRenderState EXCEPT !.exited = TRUE]
            /\ crashed' = TRUE
       ELSE \E clz_spp \in builtin_clz(scfg.spp),
               clz_side \in builtin_clz(Max(scfg.imgWidth, scfg.imgHeight) - 1) :
               /\ render_state_' = samplingDefine(scfg, clz_side, clz_spp)
               /\ crashed' = FALSE
    /\ UNCHANGED <<lock, freeSceneIDs, numSceneIDs, addrData, lpc, tracker,
                   lslot, sceneID, refs, reused>>
    /\ UNCHANGED <<renderVars, paramVars, fenceVars, bakeVars, handleVars,
                   queueVars, fbVars, scfg, cur_env_maps_, numEnvironments,
                   unsetGroupUsed>>

\* environments made in one behaviour
MaxEnvironments == 2

\* VulkanBackend::setActiveEnvironmentMaps, called between render calls
setActiveEnvironmentMaps(env_maps) ==
    /\ ~crashed
    /\ rpc = "idle"
    /\ bpc = "idle"
    /\ cur_env_maps_ # env_maps
    /\ cur_env_maps_' = env_maps
    /\ UNCHANGED <<sceneVars, renderVars, paramVars, fenceVars, bakeVars,
                   handleVars, queueVars, fbVars, scfg, render_state_,
                   numEnvironments, unsetGroupUsed>>

\* VulkanBackend::makeEnvironment: the new VulkanEnvironment is given
\* cur_env_maps_->texData.textures.size() / 2
makeEnvironment ==
    /\ ~crashed
    /\ rpc = "idle"
    /\ bpc = "idle"
    /\ numEnvironments < MaxEnvironments
    /\ numEnvironments' = numEnvironments + 1
    /\ unsetGroupUsed' = (unsetGroupUsed \/ ~cur_env_maps_.loaded)
    /\ crashed' \in EnvMapUseOutcomes(cur_env_maps_)
    /\ UNCHANGED <<lock, freeSceneIDs, numSceneIDs, addrData, lpc, tracker,
                   lslot, sceneID, refs, reused>>
    /\ UNCHANGED <<renderVars, paramVars, fenceVars, bakeVars, handleVars,
                   queueVars, fbVars, scfg, render_state_, cur_env_maps_>>

InitApiFor(scfgs, maps) ==
    /\ scfg \in scfgs
    /\ render_state_ = NoRenderState
    /\ cur_env_maps_ \in maps
    /\ numEnvironments = 0
    /\ unsetGroupUsed = FALSE

\* ---------------------------------------------------------- specifications
\* loaders and Scene holders next to a rendering thread on the plain path
PlainConfigs ==
    {c \in Configs : ~c.adaptiveSampling /\ ~c.denoise /\ ~c.tonemap /\
                     ~c.auxiliaryOutputs /\ c.batchSize = 1 /\
                     c.mode = "PathTracer"}

InitScene ==
    /\ InitSceneState
    /\ InitRenderFor(PlainConfigs, 1)
    /\ InitParamBuilt
    /\ InitBakeFor(0, 0)
    /\ InitObjFor({"Environment"})
    /\ InitQueuesFor({RequestedQueues(NumLoaders)})
    /\ InitFbFor({SmallRenderConfig(cfg_.batchSize)})
    /\ InitApiFor({DefaultStateConfig}, {DefaultEnvMaps})

NextScene == LoaderNext \/ RefNext \/ RenderPlainNext

SpecScene == InitScene /\ [][NextScene]_vars

\* one rendering thread under every configuration, the loaders at rest
InitRender ==
    /\ InitSceneState
    /\ InitRenderFor(Configs, MaxRenderCalls)
    /\ InitParamBuilt
    /\ InitBakeFor(0, 0)
    /\ InitObjFor({"Environment"})
    /\ InitQueuesFor({RequestedQueues(NumLoaders)})
    /\ InitFbFor({SmallRenderConfig(cfg_.batchSize)})
    /\ InitApiFor({DefaultStateConfig}, {DefaultEnvMaps})

SpecRender == InitRender /\ [][RenderNext]_vars

\* the rendering thread of a path tracer with adaptive sampling on
AdaptiveConfigs ==
    {c \in Configs : c.adaptiveSampling /\ c.mode = "PathTracer"}

InitAdaptive ==
    /\ InitSceneState
    /\ InitRenderFor(AdaptiveConfigs, MaxRenderCalls)
    /\ InitParamBuilt
    /\ InitBakeFor(0, 0)
    /\ InitObjFor({"Environment"})
    /\ InitQueuesFor({RequestedQueues(NumLoaders)})
    /\ InitFbFor({SmallRenderConfig(cfg_.batchSize)})
    /\ InitApiFor({DefaultStateConfig}, {DefaultEnvMaps})

RenderThreadNext ==
    \/ RenderBegin
    \/ SetupNext
    \/ TlasBuild
    \/ PackEnvs
    \/ AdaptiveFirstPass
    \/ AdaptiveLoop
    \/ DenoisePass
    \/ FinishRender

NextAdaptive == RenderThreadNext \/ CallerNext

SpecAdaptive == InitAdaptive /\ [][NextAdaptive]_vars

\* the parameter-buffer layout for every batch size, capacity configuration
\* and alignment
BatchConfigs ==
    {c \in Configs : ~c.adaptiveSampling /\ ~c.denoise /\ ~c.tonemap /\
                     ~c.auxiliaryOutputs /\ c.mode = "PathTracer"}

InitParam ==
    /\ InitSceneState
    /\ InitRenderFor(BatchConfigs, 0)
    /\ InitBakeFor(0, 0)
    /\ InitObjFor({"Environment"})
    /\ InitQueuesFor({RequestedQueues(NumLoaders)})
    /\ InitFbFor({SmallRenderConfig(cfg_.batchSize)})
    /\ InitApiFor({DefaultStateConfig}, {DefaultEnvMaps})
    /\ limits \in Limits
    /\ param_cfg_ = NoParamCfg

SpecParam == InitParam /\ [][ConstructParamCfg]_vars

\* a caller that follows every render call with waitForBatch before it
\* calls render again, under every configuration
renderAfterWait == ~awaiting /\ RenderBegin

NextFence ==
    \/ renderAfterWait
    \/ SetupNext
    \/ TlasBuild
    \/ PackEnvs
    \/ PlainDispatch
    \/ AdaptiveFirstPass
    \/ AdaptiveLoop
    \/ DenoisePass
    \/ FinishRender
    \/ GpuSignal
    \/ waitForBatch
    \/ CallerNext

SpecFence == InitRender /\ [][NextFence]_vars

\* the same caller under every configuration and tiling
StreamCalls == 2
InitStream ==
    /\ InitSceneState
    /\ InitRenderTiled(Configs, StreamCalls, Tilings)
    /\ TilingAccepted(cfg_, tiling)
    /\ InitParamBuilt
    /\ InitBakeFor(0, 0)
    /\ InitObjFor({"Environment"})
    /\ InitQueuesFor({RequestedQueues(NumLoaders)})
    /\ InitFbFor({SmallRenderConfig(cfg_.batchSize)})
    /\ InitApiFor({DefaultStateConfig}, {DefaultEnvMaps})

SpecStream == InitStream /\ [][NextFence]_vars

\* a caller that moves cameras and adds and removes lights between the
\* render calls of a batch
PackCalls == 2
PackConfigs ==
    {c \in Configs : ~c.adaptiveSampling /\ ~c.denoise /\ ~c.tonemap /\
                     ~c.auxiliaryOutputs /\ c.mode = "PathTracer"}
\* capacities that hold any one environment of the batch
PackLimits ==
    [DefaultLimits EXCEPT !.max_instances = MaxEnvElems,
                          !.max_lights = MaxEnvLights]

InitPack ==
    /\ InitSceneState
    /\ InitRenderPacked(PackConfigs, PackCalls, {UnitTiling}, Batches)
    /\ limits = PackLimits
    /\ param_cfg_ = getParamBufferConfig(cfg_.batchSize, limits, limits)
    /\ InitBakeFor(0, 0)
    /\ InitObjFor({"Environment"})
    /\ InitQueuesFor({RequestedQueues(NumLoaders)})
    /\ InitFbFor({SmallRenderConfig(cfg_.batchSize)})
    /\ InitApiFor({DefaultStateConfig}, {DefaultEnvMaps})

NextPack ==
    \/ RenderPlainNext
    \/ \E b \in BatchSlots : \E c \in Cameras : SetCamera(b, c)
    \/ \E b \in BatchSlots : \E n \in 0..MaxEnvLights : SetLights(b, n)

SpecPack == InitPack /\ [][NextPack]_vars

\* loaders next to a thread that renders, waits for the batch and bakes
LockConfigs ==
    {c \in Configs : c.batchSize = 1 /\ c.mode = "PathTracer" /\ c.tonemap /\
                     c.auxiliaryOutputs /\ (c.adaptiveSampling <=> c.denoise)}

InitLock ==
    /\ InitSceneState
    /\ InitRenderFor(LockConfigs, 1)
    /\ InitParamBuilt
    /\ InitBakeFor(1, 0)
    /\ InitObjFor({"Environment"})
    /\ InitQueuesFor({RequestedQueues(NumLoaders)})
    /\ InitFbFor({SmallRenderConfig(cfg_.batchSize)})
    /\ InitApiFor({DefaultStateConfig}, {DefaultEnvMaps})

NextLock ==
    \/ LoaderNext
    \/ RenderPlainNext
    \/ AdaptiveFirstPass
    \/ AdaptiveLoop
    \/ DenoisePass
    \/ GpuSignal
    \/ waitForBatch
    \/ BakeNext

SpecLock == InitLock /\ [][NextLock]_vars

\* one thread baking, the process restarted between and within bake calls
MaxBakeCalls == 3
MaxRestarts == 2

InitBake ==
    /\ InitSceneState
    /\ InitRenderFor(PlainConfigs, 0)
    /\ InitParamBuilt
    /\ InitBakeGrid(MaxBakeCalls, MaxRestarts, {RowGrid, CubeGrid})
    /\ InitObjFor({"Environment"})
    /\ InitQueuesFor({RequestedQueues(NumLoaders)})
    /\ InitFbFor({SmallRenderConfig(cfg_.batchSize)})
    /\ InitApiFor({DefaultStateConfig}, {DefaultEnvMaps})

NextBake == BakeNext \/ Restart

SpecBake == InitBake /\ [][NextBake]_vars

\* handles of each class made, moved and destroyed
InitHandle ==
    /\ InitSceneState
    /\ InitRenderFor(PlainConfigs, 0)
    /\ InitParamBuilt
    /\ InitBakeFor(0, 0)
    /\ InitObjFor(HandleKinds)
    /\ InitQueuesFor({RequestedQueues(NumLoaders)})
    /\ InitFbFor({SmallRenderConfig(cfg_.batchSize)})
    /\ InitApiFor({DefaultStateConfig}, {DefaultEnvMaps})

SpecHandle == InitHandle /\ [][HandleNext]_vars

\* loaders made on a backend of every loader count and queue counts
InitQueue ==
    /\ InitSceneState
    /\ InitRenderFor(PlainConfigs, 0)
    /\ InitParamBuilt
    /\ InitBakeFor(0, 0)
    /\ InitObjFor({"Loader"})
    /\ InitQueuesFor(QueueConfigs)
    /\ InitFbFor({SmallRenderConfig(cfg_.batchSize)})
    /\ InitApiFor({DefaultStateConfig}, {DefaultEnvMaps})

SpecQueue == InitQueue /\ [][makeLoader]_vars

\* the framebuffer layout of every batch size and image size
FbConfigs ==
    {c \in [batchSize : 1..MaxFbBatch, auxiliaryOutputs : {FALSE},
            tonemap : {FALSE}, adaptiveSampling : {FALSE}, denoise : {FALSE},
            mode : {"PathTracer"}] : TRUE}

InitFb ==
    /\ InitSceneState
    /\ InitRenderFor(FbConfigs, 0)
    /\ InitParamBuilt
    /\ InitBakeFor(0, 0)
    /\ InitObjFor({"Environment"})
    /\ InitQueuesFor({RequestedQueues(NumLoaders)})
    /\ InitFbFor({c \in RenderConfigs : c.batchSize = cfg_.batchSize})
    /\ InitApiFor({DefaultStateConfig}, {DefaultEnvMaps})

NextFb == ConstructFbCfg \/ ExportOutputBuffer

SpecFb == InitFb /\ [][NextFb]_vars

\* makeRenderState on every RenderConfig tried
InitSampler ==
    /\ InitSceneState
    /\ InitRenderFor(PlainConfigs, 0)
    /\ InitParamBuilt
    /\ InitBakeFor(0, 0)
    /\ InitObjFor({"Environment"})
    /\ InitQueuesFor({RequestedQueues(NumLoaders)})
    /\ InitFbFor({SmallRenderConfig(cfg_.batchSize)})
    /\ InitApiFor(StateConfigs, {DefaultEnvMaps})

SpecSampler == InitSampler /\ [][makeRenderState]_vars

\* one bake call in a new process, for samples-per-pixel counts on either
\* side of the chunk size
BakeSpps ==
    {1, BakeChunkSpp, BakeChunkSpp + 1, 2 * BakeChunkSpp, 2 * BakeChunkSpp + 1}
BakeTilings == {[UnitTiling EXCEPT !.spp = s] : s \in BakeSpps}

InitBakeProbe ==
    /\ InitSceneState
    /\ InitRenderTiled(PlainConfigs, 0, BakeTilings)
    /\ InitParamBuilt
    /\ InitBakeGrid(1, 0, {RowGrid, CubeGrid})
    /\ InitObjFor({"Environment"})
    /\ InitQueuesFor({RequestedQueues(NumLoaders)})
    /\ InitFbFor({SmallRenderConfig(cfg_.batchSize)})
    /\ InitApiFor({DefaultStateConfig}, {DefaultEnvMaps})

SpecBakeProbe == InitBakeProbe /\ [][BakeNext]_vars

\* one render call under every configuration, with the tilings and sample
\* counts at the ends of the ranges tried
MaxTileSpp == 4
TileTilings ==
    {[UnitTiling EXCEPT !.numTilesWide = w, !.numTilesTall = h, !.spp = n] :
        w \in {1, MaxTiles}, h \in {1, MaxTiles}, n \in {1, MaxTileSpp}}

InitTileInput ==
    /\ InitSceneState
    /\ InitRenderTiled(Configs, 1, TileTilings)
    /\ TilingAccepted(cfg_, tiling)
    /\ InitParamBuilt
    /\ InitBakeFor(0, 0)
    /\ InitObjFor({"Environment"})
    /\ InitQueuesFor({RequestedQueues(NumLoaders)})
    /\ InitFbFor({SmallRenderConfig(cfg_.batchSize)})
    /\ InitApiFor({DefaultStateConfig}, {DefaultEnvMaps})

SpecTileInput == InitTileInput /\ [][NextFence]_vars

\* a backend as its constructor leaves it, and a caller that makes
\* environments, sets the active environment maps, renders and bakes
EnvMapCalls == 2
InitEnvMaps ==
    /\ InitSceneState
    /\ InitRenderFor(PlainConfigs, EnvMapCalls)
    /\ InitParamBuilt
    /\ InitBakeFor(1, 0)
    /\ InitObjFor({"Environment"})
    /\ InitQueuesFor({RequestedQueues(NumLoaders)})
    /\ InitFbFor({SmallRenderConfig(cfg_.batchSize)})
    /\ InitApiFor({DefaultStateConfig}, {NoEnvMaps})

NextEnvMaps ==
    \/ setActiveEnvironmentMaps(DefaultEnvMaps)
    \/ makeEnvironment
    \/ RenderPlainNext
    \/ BakeNext

SpecEnvMaps == InitEnvMaps /\ [][NextEnvMaps]_vars

\* ================================================================== claims
Range(f) == {f[i] : i \in DOMAIN f}
LiveScenes == {s \in SceneSlots : refs[s] > 0}
\* loaders whose tracker holds an id
Allocating == {l \in Loaders : tracker[l].shared}
\* how many holders (live Scenes and trackers) hold id
Holders(id) ==
    Cardinality({s \in LiveScenes : sceneID[s].shared /\ sceneID[s].id = id}) +
    Cardinality({l \in Allocating : tracker[l].id = id})
Occurrences(f, id) == Cardinality({i \in DOMAIN f : f[i] = id})

\* C1: at every instant, under every interleaving of loadScene and release
\* by the loaders, the SceneIDs held by live Scenes (and by loads in flight)
\* are pairwise distinct.
C1_LiveIDsDistinct ==
    /\ \A s, t \in LiveScenes : s # t => sceneID[s].id # sceneID[t].id
    /\ \A l, m \in Allocating : l # m => tracker[l].id # tracker[m].id
    /\ \A s \in LiveScenes : \A l \in Allocating : sceneID[s].id # tracker[l].id

\* two Scenes are alive at once, one of them on an id that was freed before
C1_Witness ==
    \E s, t \in LiveScenes : s # t /\ sceneID[s].id \in reused

\* C2: every SceneID handed out by loadScene is smaller than the configured
\* maximum scene count, also when the allocator grows the id range.
C2_IDsBelowMax ==
    /\ \A l \in Allocating : tracker[l].id < max_scenes
    /\ \A s \in LiveScenes : sceneID[s].id < max_scenes

\* every referenced Scene holds an id that is not in the free-list, and every
\* id ever created has exactly one place: one holder, or one free-list entry
C3_Allocated ==
    /\ \A s \in LiveScenes :
          sceneID[s].shared /\ sceneID[s].id \notin Range(freeSceneIDs)
    /\ \A id \in 0..(numSceneIDs - 1) :
          Holders(id) + Occurrences(freeSceneIDs, id) = 1

\* an id enters the free-list only when a Scene's last reference goes
C3_ReturnedAtLastRelease ==
    \A id \in 0..(numSceneIDs - 1) :
        (id \notin Range(freeSceneIDs) /\ id \in Range(freeSceneIDs'))
            => \E s \in SceneSlots :
                  refs[s] = 1 /\ refs'[s] = 0 /\ sceneID[s].id = id

\* C3: a Scene's id stays allocated while the Scene is referenced, goes back
\* to the free-list exactly once, on the step that releases the last
\* reference (the moved-from tracker returns nothing), and can then be handed
\* out again.
C3_Lifetime == [](C3_Allocated) /\ [][C3_ReturnedAtLastRelease]_vars

\* a freed id has been handed out again and its new Scene is alive, next to
\* an id resting in the free-list
C3_Witness ==
    /\ \E s \in LiveScenes : sceneID[s].id \in reused
    /\ Len(freeSceneIDs) > 0

\* between lock and unlock
LoaderInSection(l) == lpc[l] \in {"alloc", "write", "unlock"}
RenderInSection == rpc = "setup_bind"

C4_Section ==
    /\ \A l \in Loaders : LoaderInSection(l) => lock = LoaderThread(l)
    /\ RenderInSection => lock = RenderThread
    /\ \A l, m \in Loaders : LoaderInSection(l) /\ LoaderInSection(m) => l = m

C4_WritesUnderLock ==
    (numSceneIDs' # numSceneIDs \/ addrData' # addrData)
        => \E l \in Loaders : lock = LoaderThread(l) /\ LoaderInSection(l)

\* C4: the id allocation and the table write run under the Shared Scene State
\* lock: no two loaders are inside the locked section together, the
\* renderer's bind of the shared-scene set never overlaps it, and the id
\* range and the table change only in a step of the loader holding the lock.
C4_MutualExclusion == [](C4_Section) /\ [][C4_WritesUnderLock]_vars

\* a loader writes the table while another loader and the renderer wait
C4_Witness ==
    /\ \E l, m \in Loaders : l # m /\ lpc[l] = "write" /\ lpc[m] = "lock"
    /\ rpc = "setup"

\* builds recorded by a call against the dirty flags it found
C5_BuildOncePerDirty ==
    /\ ~tlasRan => \A b \in BatchSlots : tlasBuilds[b] = 0
    /\ tlasRan => \A b \in BatchSlots :
          Used(b) => tlasBuilds[b] = (IF callStart.dirty[b] THEN 1 ELSE 0)
    /\ (tlasRan /\ rpc # "idle") => \A b \in BatchSlots : Used(b) => ~dirty[b]

C5_OnlyCallerSets ==
    \A b \in BatchSlots :
        (~dirty[b] /\ dirty'[b]) => (rpc = "idle" /\ rpc' = "idle")

\* C5: a render call records a TLAS build exactly once for an environment it
\* finds dirty and none for one it finds clean, however many command streams
\* the call records; after the build the flag is clear and only the caller
\* sets it again.
C5_TlasBuild == [](C5_BuildOncePerDirty) /\ [][C5_OnlyCallerSets]_vars

\* a call of several command streams has returned that found one environment
\* dirty and another one clean
C5_Witness ==
    /\ rpc = "idle" /\ calls >= 2 /\ streams >= 2
    /\ \E b, c \in BatchSlots :
          /\ Used(b) /\ Used(c)
          /\ callStart.dirty[b] /\ tlasBuilds[b] = 1
          /\ ~callStart.dirty[c] /\ tlasBuilds[c] = 0

\* C8: the reservoir bound as current in rt set i is the one bound as
\* previous in set 1-i, a set never binds one reservoir in both roles, and
\* the reservoir a render call binds as previous is the one the call before
\* it bound as current.
C8_Reservoirs ==
    /\ \A i \in {0, 1} :
          /\ rtSets[i][CurReservoirBinding] = rtSets[1 - i][PrevReservoirBinding]
          /\ rtSets[i][CurReservoirBinding] # rtSets[i][PrevReservoirBinding]
    /\ (rpc # "idle" /\ streams > 0 /\ calls > 0)
          => rtSets[boundSet][PrevReservoirBinding] = prevCur

\* a later call is recording its second command stream
C8_Witness ==
    /\ calls >= 2 /\ rpc # "idle" /\ streams >= 2

\* C9: for every flag combination a render call flips curBuffer once and
\* cur_queue_ once, at its end, and all command streams of one call bind the
\* same rt set.
C9_FlipOnce ==
    /\ curBuffer = calls % 2
    /\ cur_queue_ = calls % 2
    /\ rpc # "idle" =>
          /\ curBuffer = callStart.curBuffer
          /\ cur_queue_ = callStart.cur_queue_
          /\ callSets \subseteq {callStart.curBuffer}
    /\ Cardinality(callSets) <= 1

\* a call with adaptive sampling, denoising and tonemapping has returned
\* after recording three command streams
C9_Witness ==
    /\ rpc = "idle" /\ calls >= 1 /\ streams >= 3
    /\ cfg_.adaptiveSampling /\ cfg_.denoise /\ cfg_.tonemap
    /\ cfg_.mode = "PathTracer"

\* C10: with adaptive sampling a render call begins at most
\* max_adaptive_iters loop iterations, and as long as the process is alive
\* the call always has a next step to take until it returns: it is never
\* held in the loop, also when a tile never converges.
C10_LoopEnds ==
    /\ loopTrips <= max_adaptive_iters
    /\ adaptive_iter <= max_adaptive_iters
    /\ (rpc # "idle" /\ ~crashed) => ENABLED RenderThreadNext

\* a call has returned although its readback showed an unconverged tile
C10_Witness ==
    /\ rpc = "idle" /\ calls >= 1 /\ loopTrips >= 1
    /\ tileUnconverged /\ ~crashed

ParamBuilt == param_cfg_ # NoParamCfg

\* C6: the offsets of the four sub-regions (transforms at 0, material
\* indices, lights, per-environment records) increase strictly, each region
\* begins at or after the end of the one before it, and every offset is a
\* multiple of the storage alignment.
C6_OffsetsOrdered ==
    ParamBuilt =>
        /\ 0 < param_cfg_.materialIndicesOffset
        /\ param_cfg_.materialIndicesOffset < param_cfg_.lightsOffset
        /\ param_cfg_.lightsOffset < param_cfg_.envOffset
        /\ param_cfg_.materialIndicesOffset >= 0 + param_cfg_.totalTransformBytes
        /\ param_cfg_.lightsOffset >=
              param_cfg_.materialIndicesOffset + param_cfg_.totalMaterialIndexBytes
        /\ param_cfg_.envOffset >=
              param_cfg_.lightsOffset + param_cfg_.totalLightParamBytes
        /\ param_cfg_.totalParamBytes >=
              param_cfg_.envOffset + param_cfg_.totalEnvParamBytes
        /\ param_cfg_.materialIndicesOffset % limits.alignment = 0
        /\ param_cfg_.lightsOffset % limits.alignment = 0
        /\ param_cfg_.envOffset % limits.alignment = 0

\* a layout in which padding had to be inserted between two regions
C6_Witness ==
    /\ ParamBuilt
    /\ limits.alignment > 1
    /\ param_cfg_.lightsOffset >
          param_cfg_.materialIndicesOffset + param_cfg_.totalMaterialIndexBytes

RegionSizes ==
    <<param_cfg_.totalTransformBytes, param_cfg_.totalMaterialIndexBytes,
      param_cfg_.totalLightParamBytes, param_cfg_.totalEnvParamBytes>>

RoundUp(n, a) == IF n % a = 0 THEN n ELSE n + (a - (n % a))

\* C7 as stated: the total size is the sum of the four sub-region sizes,
\* rounded up to the storage alignment.
C7_TotalIsCeilOfSum ==
    ParamBuilt =>
        param_cfg_.totalParamBytes =
            RoundUp(RegionSizes[1] + RegionSizes[2] + RegionSizes[3] +
                    RegionSizes[4], limits.alignment)

\* C7 amended: the total size is the sum of the four sub-region sizes, each
\* rounded up to the storage alignment on its own.
C7_TotalIsSumOfCeils ==
    ParamBuilt =>
        param_cfg_.totalParamBytes =
            RoundUp(RegionSizes[1], limits.alignment) +
            RoundUp(RegionSizes[2], limits.alignment) +
            RoundUp(RegionSizes[3], limits.alignment) +
            RoundUp(RegionSizes[4], limits.alignment)

\* a layout whose padded regions add up to more than the rounded-up sum
C7_Witness ==
    /\ ParamBuilt
    /\ param_cfg_.totalParamBytes >
          RoundUp(RegionSizes[1] + RegionSizes[2] + RegionSizes[3] +
                  RegionSizes[4], limits.alignment)

\* C11: once the per-tile pass of an iteration has emitted no work item,
\* the convergence loop records no further ray-tracing dispatch and makes no
\* further submission in that render call.
C11_StopsWhenEmpty == emptySeen.seen => loopWork = emptySeen.work

\* a call has returned whose pass found nothing to emit
C11_Witness ==
    /\ emptySeen.seen
    /\ rpc = "idle"
    /\ calls > 0
    /\ fence.submits > fenceAtCall.submits

\* C12: after a per-tile pass, a readback that shows a tile above the
\* variance threshold or short of the minimum sample count has that tile's
\* work items in the list for the next iteration.
C12_UnconvergedReEmitted ==
    (loopTrips > 0 /\ tileUnconverged) => num_tiles > 0

\* ---- probe file ----
IsRecord(e) == e.kind = "record"
LogRecords == SelectSeq(fileLog, IsRecord)
WrittenImages == [j \in 1..Len(LogRecords) |-> LogRecords[j].image]
\* the file holds one header, at its start, and after it only records
OneHeaderFile ==
    /\ fileLog # <<>>
    /\ \A i \in DOMAIN fileLog : (fileLog[i].kind = "header") <=> (i = 1)
\* the load branch of the running bake call has just finished
AfterLoad == bpc = "loop" /\ bakeI = 0 /\ entryFile.exists
BakeReturned == bpc = "idle" /\ bakeCalls > 0
RecordLen == SizeFieldWords + ImageWords
WellFormed(words) ==
    /\ Len(words) >= Len(HeaderWords)
    /\ SubSeq(words, 1, Len(HeaderWords)) = HeaderWords
    /\ (Len(words) - Len(HeaderWords)) % RecordLen = 0
    /\ \A j \in 0..(((Len(words) - Len(HeaderWords)) \div RecordLen) - 1) :
          SubSeq(words, Len(HeaderWords) + j * RecordLen + 1,
                 Len(HeaderWords) + j * RecordLen + SizeFieldWords)
              = SizeWords(ProbeSize)

\* C13: loading a file that serializeProbeToFile wrote after one header
\* yields the written images, as many and in the same order, and the grid
\* dimensions of the header.
C13_RoundTrip ==
    (AfterLoad /\ OneHeaderFile) =>
        /\ loaded = WrittenImages
        /\ probe_count = PROBE_DIM[1] * PROBE_DIM[2] * PROBE_DIM[3]

\* C14: loading a file of one header and N complete records yields exactly
\* N probes: none comes from the read that hits end-of-file.
C14_LoadsExactlyN ==
    (AfterLoad /\ OneHeaderFile) => Len(loaded) = Len(LogRecords)

\* C15: bake does not end the process, it renders as many probes as the
\* file it finds lacks, and when it returns probes_ and the probe set hold
\* PROBE_COUNT probes each.
C15_RendersMissing ==
    /\ (bpc # "idle") => ~crashed
    /\ (BakeReturned /\ Len(LogRecords) - Len(appended) <= PROBE_COUNT) =>
          /\ Len(rendered) = PROBE_COUNT - (Len(LogRecords) - Len(appended))
          /\ Len(probes_) = PROBE_COUNT
          /\ Len(probe_dset_) = PROBE_COUNT

\* C16: every record a bake call appends holds the image of the probe it
\* has just baked, and once a bake call has returned record j of the file
\* holds the image baked for grid index j, for every j below PROBE_COUNT.
C16_Resumable ==
    /\ \A i \in DOMAIN appended :
          appended[i].image = bakeProbeImage(appended[i].idx)
    /\ BakeReturned =>
          /\ Len(LogRecords) >= PROBE_COUNT
          /\ \A j \in 0..(PROBE_COUNT - 1) :
                LogRecords[j + 1].image = bakeProbeImage(j)

\* C17: the only header of the file is the one at offset 0, and whenever no
\* bake call is running the file is that header followed by size-prefixed
\* image records.
C17_OneHeader ==
    /\ \A i \in DOMAIN fileLog :
          fileLog[i].kind = "header" => fileLog[i].at = 0
    /\ (bpc = "idle" /\ probeFile.exists) => WellFormed(probeFile.words)

\* ---- the batch fence ----
PlainPath == ~cfg_.adaptiveSampling /\ ~cfg_.denoise

\* submissions and waits of the running (or last) call on the plain path
C18_OneSubmission ==
    PlainPath =>
        /\ (rpc # "idle") =>
              /\ fence.submits = fenceAtCall.submits
              /\ fence.waits = fenceAtCall.waits
        /\ (rpc = "idle" /\ calls > 0) =>
              /\ fence.submits = fenceAtCall.submits + 1
              /\ awaiting =>
                    /\ fence.waits = fenceAtCall.waits
                    /\ fence.pending = 1 \/ fence.signaled
              /\ ~awaiting =>
                    /\ fence.waits = fenceAtCall.waits + 1
                    /\ fence.pending = 0

\* a wait on the fence is a step of waitForBatch
C18_WaitInWaitForBatch ==
    (PlainPath /\ fence'.waits # fence.waits) =>
        /\ rpc = "idle" /\ rpc' = "idle"
        /\ awaiting /\ ~awaiting'

\* C18: with adaptive sampling and denoising off a render call makes one
\* submission, with the batch fence, and returns without a fence wait; the
\* wait for that submission is made by waitForBatch.
C18_SubmitAndReturn == [](C18_OneSubmission) /\ [][C18_WaitInWaitForBatch]_vars

\* a plain render call has returned and waitForBatch has waited for it
C18_Witness ==
    /\ PlainPath
    /\ rpc = "idle"
    /\ calls > 0
    /\ ~awaiting
    /\ fence.waits = fenceAtCall.waits + 1

\* C19: when every render call is followed by waitForBatch before the next,
\* no submission is made with the fence signaled, waited on and not reset,
\* or still pending; inside a call every wait has been followed by its
\* reset; and once waitForBatch has returned nothing is pending.
C19_FenceDiscipline ==
    /\ ~fence.fault
    /\ (rpc # "idle" \/ ~awaiting) =>
          /\ fence.pending = 0
          /\ ~fence.signaled
          /\ ~fence.waited

\* a second call on the adaptive and denoise path has returned and has been
\* waited for
C19_Witness ==
    /\ cfg_.adaptiveSampling
    /\ cfg_.denoise
    /\ cfg_.mode = "PathTracer"
    /\ calls > 1
    /\ rpc = "idle"
    /\ ~awaiting
    /\ ~crashed
    /\ fence.waits > 4

\* ---- the lock and the device ----
\* the rendering thread is blocked until the device signals a fence
WaitingForGpu ==
    \/ bpc \in {"bp_chunk_wait", "bp_final_wait"}
    \/ rpc = "idle" /\ bpc = "idle" /\ awaiting

\* C20: no thread makes a submission or waits for a fence while it holds
\* the Shared Scene State lock; the rendering thread holds it only between
\* the lock and the unlock around the bind of the shared-scene set, in
\* render and in bakeProbe, and can then release it without waiting for
\* the device, so a loader is never kept from the lock by a fence wait.
C20_LockNotHeldAcrossGpu ==
    /\ ~gpuUnderLock
    /\ (lock = RenderThread) => (rpc = "setup_bind" \/ bpc = "bp_bind")
    /\ WaitingForGpu => lock # RenderThread
    /\ (lock = RenderThread /\ ~crashed) =>
          ENABLED (SetupBindShared \/ bakeSetupBindShared)

\* a loader is inside its locked section while the thread that has rendered
\* is blocked on the fence of a bakeProbe submission
C20_Witness ==
    /\ WaitingForGpu
    /\ bpc = "bp_chunk_wait"
    /\ calls > 0
    /\ fence.waits > 0
    /\ \E l \in Loaders : LoaderInSection(l)

\* ---- handles ----
LiveHandles == {h \in Handles : handles[h].alive}
Made == {i \in Objects : instances[i].type # "none"}
\* the live handles that point to instance i
Owners(i) == {h \in LiveHandles : handles[h].state_ = i}

\* no instance is destroyed twice, each destruction went through the destroy
\* operation captured with the instance, an instance a handle points to has
\* not been destroyed, and an instance no handle points to has been
DestroyedOnce ==
    \A i \in Made :
        /\ instances[i].destroys <= 1
        /\ instances[i].destroys = 1 =>
              instances[i].destroyedBy = DestroyOf(hkind, instances[i].type)
        /\ Cardinality(Owners(i)) <= 1
        /\ (Owners(i) = {}) <=> (instances[i].destroys = 1)

\* after a move the source holds no instance, and a move assignment has
\* destroyed the instance the destination held
MoveReleases ==
    lastMove.op # "none" =>
        /\ handles[lastMove.src].state_ = NullPtr
        /\ lastMove.held # NullPtr => instances[lastMove.held].destroys = 1

\* the destruction of a handle that holds no instance destroys nothing
EmptyDestructs ==
    \A h \in Handles :
        (Destruct(h) /\ handles[h].state_ = NullPtr) => instances' = instances

\* C21: for every sequence of move constructions, move assignments and
\* destructions of Environment, Loader and Renderer handles, each backend
\* instance is destroyed exactly once through the captured destroy
\* operation: a move assignment first destroys the instance the destination
\* held, a moved-from handle holds no instance and its destruction destroys
\* nothing, and no instance is destroyed twice or left undestroyed once all
\* handles are gone.
C21_DestroyedExactlyOnce ==
    /\ [](DestroyedOnce /\ MoveReleases)
    /\ [][EmptyDestructs]_vars

\* a move assignment has just destroyed the instance its destination held
\* and taken over the source's, after an earlier instance was destroyed by
\* the destruction of its handle
C21_Witness ==
    /\ lastMove.op = "assign"
    /\ lastMove.dst # lastMove.src
    /\ lastMove.held # NullPtr
    /\ lastMove.from.state_ # NullPtr
    /\ handles[lastMove.dst].state_ = lastMove.from.state_
    /\ \E i \in Made : i # lastMove.held /\ instances[i].destroys = 1

\* C22: after a move construction or a move assignment of a Renderer, Loader
\* or Environment handle (from another handle), the destination holds the
\* source's destroy operation, every one of the source's operation pointers
\* and the source's instance pointer, so each method called on the
\* destination dispatches to the operation captured when the source was
\* constructed.
C22_MoveCopiesAll ==
    (lastMove.op # "none" /\ lastMove.dst # lastMove.src) =>
        /\ handles[lastMove.dst].destroy_ptr_ = lastMove.from.destroy_ptr_
        /\ handles[lastMove.dst].state_ = lastMove.from.state_
        /\ \A m \in MethodPtrs(hkind) :
              handles[lastMove.dst].ptrs[m] = lastMove.from.ptrs[m]

\* ---- queues ----
MadeLoaders == DOMAIN loaderQueues
\* the compute queues render submits to (cur_queue_ is 0 or 1)
RenderQueues == {0, 1}

\* C23: for every configured loader count and every number of physical
\* transfer and compute queues, whenever makeLoader has given two loaders the
\* same transfer queue or the same compute queue, or has given a loader a
\* compute queue render also submits to (queue 0 or 1), that queue's shared
\* flag is set; and the transfer queues are flagged shared exactly when the
\* loader count exceeds the transfer queue count.
C23_SharedWhenContended ==
    /\ \A a \in MadeLoaders, b \in MadeLoaders :
          a # b =>
            /\ loaderQueues[a].transfer = loaderQueues[b].transfer =>
                  transfer_queues_[loaderQueues[a].transfer]
            /\ loaderQueues[a].compute = loaderQueues[b].compute =>
                  compute_queues_[loaderQueues[a].compute]
    /\ \A a \in MadeLoaders :
          loaderQueues[a].compute \in RenderQueues =>
              compute_queues_[loaderQueues[a].compute]
    /\ \A i \in DOMAIN transfer_queues_ :
          transfer_queues_[i] <=> qcfg.numLoaders > qcfg.numTransferQueues

\* all configured loaders are made; two of them share a transfer queue and a
\* compute queue that render submits to as well
C23_Witness ==
    /\ num_loaders_ = qcfg.numLoaders
    /\ \E a \in MadeLoaders, b \in MadeLoaders :
          /\ a # b
          /\ loaderQueues[a].transfer = loaderQueues[b].transfer
          /\ loaderQueues[a].compute = loaderQueues[b].compute
          /\ loaderQueues[a].compute \in RenderQueues
          /\ compute_queues_[0]

\* ---- framebuffer layout ----
\* bytes of four half-precision values
HalfPixelBytes == 4 * 2
\* width * height * batchSize pixels of four half-precision values, in bytes
ExactOutputBytes(cfg) ==
    MulWide(MulWide(MulWide(Wide(cfg.imgWidth), cfg.imgHeight),
                    cfg.batchSize), HalfPixelBytes)

\* the configurations in range: the exact size fits the 32 bits of
\* FramebufferConfig::outputBytes
InRange(cfg) == ExactOutputBytes(cfg)[1] < W16

\* C24: for every batch size >= 1 and image size, the assertions of
\* getFramebufferConfig hold and the batch image grid satisfies imagesWide *
\* imagesTall = batchSize with imagesWide dividing batchSize; and for the
\* configurations in range the exported output buffer holds exactly 4
\* half-precision values per pixel of each of the batchSize images, no
\* 32-bit wraparound changing that size.
C24_FramebufferSized ==
    /\ fb_cfg_.computed =>
        /\ fb_cfg_.asserts
        /\ fb_cfg_.numImagesWidePerBatch * fb_cfg_.numImagesTallPerBatch =
              rcfg_.batchSize
        /\ rcfg_.batchSize % fb_cfg_.numImagesWidePerBatch = 0
        /\ InRange(rcfg_) => fb_cfg_.outputBytes = ExactOutputBytes(rcfg_)
    /\ (exportedBytes # NoBuffer /\ InRange(rcfg_)) =>
          exportedBytes = ExactOutputBytes(rcfg_)

\* the output buffer of a batch of six 1920 x 1080 images, laid out three
\* wide and two tall, has been exported
C24_Witness ==
    /\ exportedBytes # NoBuffer
    /\ rcfg_.batchSize = 6
    /\ rcfg_.imgWidth = 1920 /\ rcfg_.imgHeight = 1080
    /\ fb_cfg_.numImagesWidePerBatch > 1
    /\ fb_cfg_.numImagesTallPerBatch > 1
    /\ InRange(rcfg_)
    /\ exportedBytes[1] > 0

\* ------------------------------------------------------------ C25
\* the frame counter the running / last render call began with: the value
\* its first startRenderSetup pushed
FrameAtCall == cmds[1].arg[1]

\* the call has recorded its trace stage
Traced == cmds # <<>> /\ rpc \in {"denoise", "finish", "idle"}

\* C25: without adaptive sampling a render call records exactly one
\* ray-tracing dispatch, over launch_size_, and raises the frame counter by
\* exactly the batch size; with adaptive sampling the frame counter has risen
\* by the batch size once for every iteration of the convergence loop begun.
C25_FrameCounter ==
    /\ (Traced /\ ~cfg_.adaptiveSampling) =>
          /\ Cardinality(RtDispatches(cmds)) = 1
          /\ \A i \in RtDispatches(cmds) :
                cmds[i].arg = getLaunchSize(cfg_, tiling)
          /\ frame_counter_ = FrameAtCall + cfg_.batchSize
    /\ (cmds # <<>> /\ cfg_.adaptiveSampling) =>
          frame_counter_ = FrameAtCall + cfg_.batchSize * loopTrips

\* a second plain call over several tiles and workgroup layers has returned,
\* and so has an adaptive call that began a loop iteration
C25_Witness ==
    /\ rpc = "idle"
    /\ calls = 2
    /\ \/ /\ ~cfg_.adaptiveSampling
          /\ cfg_.batchSize = 2
          /\ getLaunchSize(cfg_, tiling) = <<2, 2, 2>>
          /\ frame_counter_ = 4
       \/ /\ cfg_.adaptiveSampling
          /\ cfg_.batchSize = 2
          /\ loopTrips = 1
          /\ frame_counter_ = 4

Positions(op) == {i \in 1..Len(cmds) : cmds[i].op = op}

\* positions of the barriers whose source access holds src and whose
\* destination access holds dst
Barriers(src, dst) ==
    {i \in 1..Len(cmds) : /\ src \in BarrierAccess(cmds[i].op).src
                          /\ dst \in BarrierAccess(cmds[i].op).dst}

\* the first ray-tracing dispatch of the call
FirstRtDispatch ==
    CHOOSE i \in RtDispatches(cmds) : \A j \in RtDispatches(cmds) : i <= j

\* C27: in the command stream of a render call, adaptive or not, every TLAS
\* build comes before a barrier from acceleration-structure write to shader
\* read, the parameter-buffer copy comes before a barrier from transfer write
\* to shader read, and both barriers come before the first ray-tracing
\* dispatch.
C27_BarriersBeforeTrace ==
    RtDispatches(cmds) # {} =>
        /\ \E b \in Barriers("ACCELERATION_STRUCTURE_WRITE", "SHADER_READ") :
              /\ \A t \in Positions("tlas_build") : t < b
              /\ b < FirstRtDispatch
        /\ Positions("param_copy") # {}
        /\ \E b \in Barriers("TRANSFER_WRITE", "SHADER_READ") :
              /\ \A c \in Positions("param_copy") : c < b
              /\ b < FirstRtDispatch

\* an adaptive call that rebuilt the TLAS of two environments has traced
C27_Witness ==
    /\ cfg_.adaptiveSampling
    /\ Cardinality(Positions("tlas_build")) = 2
    /\ Positions("zero_barrier") # {}
    /\ RtDispatches(cmds) # {}

\* ------------------------------------------------------------ C28
\* sample chunks of one tile: ceil(spp / samplesPerThread)
SampleChunks == (tiling.spp + tiling.adaptive_samples_per_thread - 1) \div
                tiling.adaptive_samples_per_thread

\* one work item for every (environment, tile, sample chunk) triple
AllTriples ==
    {[batchIdx |-> b, xOffset |-> x, yOffset |-> y,
      sampleOffset |-> k * tiling.adaptive_samples_per_thread] :
        b \in 0..(cfg_.batchSize - 1), x \in 0..(tiling.numTilesWide - 1),
        y \in 0..(tiling.numTilesTall - 1), k \in 0..(SampleChunks - 1)}

\* the first adaptive pass of the call has been recorded
FirstPassDone ==
    /\ cfg_.adaptiveSampling
    /\ Positions("write_tiles") # {}

\* C28: the first adaptive pass emits one work item for every (environment,
\* tile, sample chunk) triple, batchSize * tilesWide * tilesTall *
\* ceil(spp / samplesPerThread) items that differ from one another, and
\* dispatches exactly that many thread-groups.
C28_FirstPassWorkList ==
    FirstPassDone =>
        /\ Len(tileInput) = cfg_.batchSize * tiling.numTilesWide *
                            tiling.numTilesTall * SampleChunks
        /\ \A i, j \in 1..Len(tileInput) :
              i # j => tileInput[i] # tileInput[j]
        /\ {tileInput[i] : i \in 1..Len(tileInput)} = AllTriples
        /\ cmds[FirstRtDispatch].arg = <<Len(tileInput), 1, 1>>

\* a first pass over two environments of two by two tiles whose three
\* samples per pixel take two chunks
C28_Witness ==
    /\ FirstPassDone
    /\ cfg_.batchSize = 2
    /\ tiling.numTilesWide = 2
    /\ tiling.numTilesTall = 2
    /\ tiling.spp = 3
    /\ tiling.adaptive_samples_per_thread = 2
    /\ Len(tileInput) = 16

\* ------------------------------------------------------------ C29
\* tiles of the batch: what the host reads and decides on in one iteration
TilesOfBatch == cfg_.batchSize * tiling.numTilesTall * tiling.numTilesWide

\* position p of the log lies after a submission of the pass dispatched at d
\* and after a fence wait that follows that submission
WaitedFor(d, p) ==
    \E sub \in Positions("submit") : \E w \in Positions("wait") :
        d < sub /\ sub < w /\ w < p

\* C29: in the adaptive path the host reads the statistics and illuminance
\* of a pass only after the submission of that pass has been waited on
\* through the batch fence, with nothing left pending; whatever the call
\* submits after a pass is submitted only after the host has decided on
\* every tile of the batch; and no submission of the call is made while an
\* earlier one is in flight.
C29_ReadAfterWait ==
    cfg_.adaptiveSampling =>
        /\ \A p \in Positions("process_tiles") :
              /\ \E d \in RtDispatches(cmds) : d < p
              /\ \A d \in RtDispatches(cmds) : d < p => WaitedFor(d, p)
              /\ cmds[p].arg = <<TilesOfBatch>>
        /\ \A d \in RtDispatches(cmds) : \A s1, s2 \in Positions("submit") :
              (d < s1 /\ s1 < s2) =>
                  \E p \in Positions("process_tiles") : d < p /\ p < s2
        /\ \A s1, s2 \in Positions("submit") :
              s1 < s2 => \E w \in Positions("wait") : s1 < w /\ w < s2
        /\ ~fence.fault
        /\ fence.pending <= 1
        /\ rpc # "idle" => fence.pending = 0

\* an adaptive call that denoises has read the tiles of two environments of
\* two by two tiles after its first pass and has made its last submission
C29_Witness ==
    /\ cfg_.adaptiveSampling
    /\ cfg_.denoise
    /\ cfg_.mode = "PathTracer"
    /\ TilesOfBatch = 8
    /\ Positions("process_tiles") # {}
    /\ Cardinality(Positions("submit")) = 3
    /\ rpc = "idle"
    /\ fence.pending = 1

\* ------------------------------------------------------------ C30
\* the call has submitted after its trace, waited on the fence, reset it, run
\* the denoiser and begun a new command buffer, in that order, ahead of
\* position e of the log
DenoisedBefore(e) ==
    \E d \in RtDispatches(cmds) : \E sub \in Positions("submit") :
    \E w \in Positions("wait") : \E r \in Positions("reset") :
    \E n \in Positions("denoise") : \E b \in Positions("begin") :
        d < sub /\ sub < w /\ w < r /\ r < n /\ n < b /\ b < e

\* C30: whenever denoising is enabled, in every render mode, a render call
\* submits the ray-traced work, waits on the batch fence and resets it, runs
\* the denoise pass and begins a fresh command stream before it records an
\* exposure or tonemap pass and before its final submission; and the
\* denoiser exists whenever the denoise step runs.
C30_DenoiseSequence ==
    /\ (cfg_.denoise /\ rpc = "idle" /\ cmds # <<>>) =>
          /\ DenoisedBefore(Len(cmds))
          /\ \A e \in Positions("exposure_dispatch") \cup
                      Positions("tonemap_dispatch") : DenoisedBefore(e)
    /\ Positions("denoise") # {} => denoiser_(cfg_)

\* ------------------------------------------------------------ C31
\* the environments of the batch
UsedSlots == {b \in BatchSlots : b < cfg_.batchSize}

\* C31: for every environment, the previous-camera record a render call
\* packs equals the current-camera record the render call before it packed
\* for that environment, whatever the caller did to the camera in between;
\* and the camera saved as previous is the one the call packed as current.
C31_PrevCamIsLastCam ==
    \A b \in UsedSlots :
        /\ (envPtr[b].packed /\ prevEnvPtr[b].packed) =>
              envPtr[b].prevCam = prevEnvPtr[b].cam
        /\ envPtr[b].packed => packCamera(envs[b].prevCam) = envPtr[b].cam

\* a second render call has packed an environment whose camera was moved
\* after the first
C31_Witness ==
    \E b \in UsedSlots :
        /\ envPtr[b].packed
        /\ prevEnvPtr[b].packed
        /\ envPtr[b].cam # prevEnvPtr[b].cam
        /\ envPtr[b].prevCam # envPtr[b].cam

\* ------------------------------------------------------------ C32
\* the packing loop of a render call has just run
JustPacked == rpc \in {"plain", "adaptive_first"}

\* the sum of a count over the environments ahead of slot i
CountAhead(count(_), i) ==
    Cardinality({<<j, k>> \in (0..(i - 1)) \X (1..MaxEnvElems + MaxEnvLights) :
                    k <= count(j)})

NumInstances(j) == envs[j].instances
NumMaterials(j) == envs[j].materials
NumLights(j) == envs[j].lights

\* the elements a <<first, count>> range covers
Covered(r) == r[1]..(r[1] + r[2] - 1)

\* C32: when render has packed a batch, environment i's material offset is
\* the sum of the material-index counts of environments 0..i-1, its light
\* offset the sum of their light counts and its light count its own; the
\* transform, material-index and light ranges of the environments follow one
\* another in batch order from 0 on and no two of them share an element.
C32_OffsetsArePrefixSums ==
    JustPacked =>
        \A i \in UsedSlots :
            /\ envPtr[i].data_y = CountAhead(NumMaterials, i)
            /\ envPtr[i].data_z = CountAhead(NumLights, i)
            /\ envPtr[i].data_w = envs[i].lights
            /\ ranges[i].transforms =
                    <<CountAhead(NumInstances, i), envs[i].instances>>
            /\ ranges[i].materials = <<envPtr[i].data_y, envs[i].materials>>
            /\ ranges[i].lights = <<envPtr[i].data_z, envPtr[i].data_w>>
            /\ \A j \in UsedSlots :
                  i # j =>
                      /\ Covered(ranges[i].transforms) \cap
                            Covered(ranges[j].transforms) = {}
                      /\ Covered(ranges[i].materials) \cap
                            Covered(ranges[j].materials) = {}
                      /\ Covered(ranges[i].lights) \cap
                            Covered(ranges[j].lights) = {}

\* a second environment has been packed behind one that holds an instance,
\* a light and no material index
C32_Witness ==
    /\ JustPacked
    /\ cfg_.batchSize = 2
    /\ envs[0].instances = 1
    /\ envs[0].materials = 0
    /\ envs[0].lights = 1
    /\ envs[1].lights = 1
    /\ envPtr[1].data_z = 1
    /\ envPtr[1].data_y = 0

\* ------------------------------------------------------------ C33
\* the elements written to a region, over the whole batch
WrittenTo(region(_)) == UNION {Covered(region(b)) : b \in UsedSlots}

TransformsOf(b) == ranges[b].transforms
MaterialsOf(b) == ranges[b].materials
LightsOf(b) == ranges[b].lights

\* C33: for every batch render packs, the writes stay inside their
\* sub-regions of the parameter buffer: the transforms written lie below the
\* instance capacity, the material indices below the capacity of the
\* material-index region and the lights below the light capacity; a batch
\* over a capacity is rejected before anything is written.
C33_WritesInsideRegions ==
    (\A b \in UsedSlots : ranges[b].written) =>
        /\ \A e \in WrittenTo(TransformsOf) : e < limits.max_instances
        /\ \A e \in WrittenTo(MaterialsOf) :
              4 * (e + 1) <= param_cfg_.totalMaterialIndexBytes
        /\ \A e \in WrittenTo(LightsOf) : e < limits.max_lights

\* floor(log2(v)) for v >= 1: the k with 2^k <= v < 2^(k+1)
FloorLog2(v) == CHOOSE k \in 0..30 : 2^k <= v /\ v < 2^(k + 1)

\* the number of base-4 index digits times two, as the sampler needs it
IndexBits(c) ==
    2 * (FloorLog2(Max(c.imgWidth, c.imgHeight) - 1) + 1 +
         (FloorLog2(c.spp) + 1) \div 2)

\* C34: for every image size and samples-per-pixel count with
\* max(width, height) >= 2 and spp >= 1, once makeRenderState has chosen the
\* sampler it is ZSobol exactly when 2 * (floor(log2(max(width, height) - 1))
\* + 1 + floor((floor(log2(spp)) + 1) / 2)) <= 32 and uniform sampling is not
\* forced; otherwise it is uniform sampling, and the choice does not end the
\* process
C34_SamplerSelection ==
    (render_state_.built /\ Max(scfg.imgWidth, scfg.imgHeight) >= 2 /\
     scfg.spp >= 1) =>
        /\ render_state_.sampling =
              IF IndexBits(scfg) <= 32 /\ ~scfg.ForceUniform
              THEN "ZSOBOL_SAMPLING" ELSE "UNIFORM_SAMPLING"
        /\ ~render_state_.exited
        /\ ~crashed

\* the fallback: an image too large for the spp, uniform sampling not forced
C34_Witness ==
    /\ render_state_.built
    /\ scfg.imgWidth = 65536 /\ scfg.imgHeight = 2 /\ scfg.spp = 2
    /\ ~scfg.ForceUniform
    /\ render_state_.sampling = "UNIFORM_SAMPLING"
    /\ render_state_.warned
    /\ ~crashed

\* the cells of the grid, and the cell the statement gives grid index idx
GridCells ==
    (0..(PROBE_DIM[1] - 1)) \X (0..(PROBE_DIM[2] - 1)) \X
        (0..(PROBE_DIM[3] - 1))
CellOfIndex(idx) ==
    <<idx % PROBE_DIM[1], (idx \div PROBE_DIM[1]) % PROBE_DIM[2],
      (idx \div (PROBE_DIM[1] * PROBE_DIM[2])) % PROBE_DIM[3]>>
GridIndices == 0..(PROBE_COUNT - 1)
\* a bake call is running or has returned, and started inside the grid
BakeOfGrid == (bpc # "idle" \/ BakeReturned) /\ start <= PROBE_COUNT

\* C35: the positions bake renders form the regular grid: the position of
\* grid index idx is the cell (idx mod X, (idx div X) mod Y, (idx div (X*Y))
\* mod Z), the indices 0..X*Y*Z-1 map one-to-one onto the X*Y*Z cells, and
\* a bake that starts with k probes in probes_ renders the cells of the
\* indices k..X*Y*Z-1, each once and in increasing index order.
C35_GridPositions ==
    /\ {CellOfIndex(idx) : idx \in GridIndices} = GridCells
    /\ \A i, j \in GridIndices : CellOfIndex(i) = CellOfIndex(j) => i = j
    /\ BakeOfGrid =>
          /\ positions = [i \in 1..(PROBE_COUNT - start) |->
                             CellOfIndex(start + i - 1)]
          /\ Len(rendered) <= Len(positions)
          /\ rendered = SubSeq(positions, 1, Len(rendered))
          /\ BakeReturned => rendered = positions

\* a resumed bake has returned: it started inside the grid and rendered up
\* to the last cell
C35_Witness ==
    /\ BakeReturned
    /\ PROBE_DIM[2] > 1 /\ PROBE_DIM[3] > 1
    /\ start > 0
    /\ start < PROBE_COUNT - 1
    /\ Len(rendered) = PROBE_COUNT - start
    /\ rendered[Len(rendered)] =
          <<PROBE_DIM[1] - 1, PROBE_DIM[2] - 1, PROBE_DIM[3] - 1>>

\* positions of an operation in the log of the running / last bakeProbe
BakePositions(op) == {i \in 1..Len(bakeLog) : bakeLog[i].op = op}
BakeProbeReturned ==
    bakeLog # <<>> /\ bakeLog[Len(bakeLog)].op = "return"
\* the submission at s has been waited for and its fence reset before e
WaitedAndReset(s, e) ==
    \E w \in BakePositions("wait"), r \in BakePositions("reset") :
        s < w /\ w < r /\ r < e

\* C36: baking one probe records ceil(spp / 64) ray-tracing dispatches,
\* each in a submission of its own that is waited for and whose fence is
\* reset before the next command stream is begun; the output buffers are
\* zeroed once, ahead of the first dispatch only; and when bakeProbe
\* returns every submission has been waited for and none is pending.
C36_ChunkLoop ==
    /\ ~probeFence.fault
    /\ \A d \in BakePositions("dispatch_rt") :
          /\ d < Len(bakeLog) /\ bakeLog[d + 1].op = "submit"
          /\ \A e \in BakePositions("dispatch_rt") \cup
                        BakePositions("return") :
                d < e =>
                    \E b \in BakePositions("begin") :
                        /\ b < e
                        /\ WaitedAndReset(d + 1, b)
                        /\ \A m \in (d + 1)..(b - 1) :
                              bakeLog[m].op # "dispatch_rt"
    /\ \A f \in BakePositions("fill") :
          /\ \A d \in BakePositions("dispatch_rt") : f < d
          /\ \A g \in BakePositions("fill") :
                bakeLog[f].arg = bakeLog[g].arg => f = g
    /\ BakeProbeReturned =>
          /\ Cardinality(BakePositions("dispatch_rt")) =
                (tiling.spp + BakeChunkSpp - 1) \div BakeChunkSpp
          /\ Cardinality(BakePositions("fill")) = 2
          /\ \A u \in BakePositions("submit") :
                WaitedAndReset(u, Len(bakeLog))
          /\ probeFence.pending = 0
          /\ ~probeFence.signaled

\* a probe baked with 129 samples per pixel: three chunks
C36_Witness ==
    /\ BakeProbeReturned
    /\ tiling.spp = 2 * BakeChunkSpp + 1
    /\ Cardinality(BakePositions("dispatch_rt")) = 3
    /\ probeFence.submits > 3

\* C37: in every pass of the adaptive path the work items render has
\* written into the tile-input buffer are no more than the max_tiles * 2
\* entries the buffer was made for.
C37_TileInputFits == Len(tileInput) <= tileInputCapacity

\* the buffers a configuration enables, by the field that holds their index
EnabledOutputs(cfg) ==
    {"outputIdx", "hdrIdx"} \cup
    (IF cfg.auxiliaryOutputs THEN {"normalIdx", "albedoIdx"} ELSE {}) \cup
    (IF cfg.tonemap THEN {"illuminanceIdx"} ELSE {}) \cup
    (IF cfg.adaptiveSampling THEN {"adaptiveIdx"} ELSE {})
OutputFields ==
    {"outputIdx", "hdrIdx", "normalIdx", "albedoIdx", "illuminanceIdx",
     "adaptiveIdx"}
Recorded(op) == \E i \in 1..Len(cmds) : cmds[i].op = op

\* C38: makeFramebuffer gives the enabled buffers pairwise distinct indices
\* below the number of allocated buffers and a disabled buffer the index
\* -1, and render uses no disabled index: the illuminance buffer is read
\* back only when it was allocated, and the normal and albedo buffers are
\* handed to the denoiser only when they were allocated.
C38_NoDisabledIndexUsed ==
    LET fb == makeFramebuffer(cfg_)
    IN  /\ \A f \in OutputFields :
              IF f \in EnabledOutputs(cfg_)
              THEN fb[f] >= 0 /\ fb[f] < fb.numOutputs
              ELSE fb[f] = -1
        /\ \A f, g \in EnabledOutputs(cfg_) : fb[f] = fb[g] => f = g
        /\ fb.numOutputs = Cardinality(EnabledOutputs(cfg_))
        /\ Recorded("readback_copy") =>
              /\ ValidOutput(cfg_, fb.adaptiveIdx)
              /\ ValidOutput(cfg_, fb.illuminanceIdx)
        /\ Recorded("denoise") =>
              /\ ValidOutput(cfg_, fb.normalIdx)
              /\ ValidOutput(cfg_, fb.albedoIdx)

\* C39: under every sequence of public calls, makeEnvironment, render and
\* bake use the active environment map group only when
\* setActiveEnvironmentMaps has installed one: no call uses the unset
\* (null) group.
C39_GroupSetBeforeUse == ~unsetGroupUsed
====
